---- MODULE Spec2Model ----
(***************************************************************************)
(* Weathering-with-Phew: the rule engine (src/app/rules.py), the spatial   *)
(* index (src/app/stations.py), the feature engine (src/app/features.py)   *)
(* and the tick orchestrator (src/app/engine.py) as state machines.        *)
(*                                                                         *)
(* Units.  Timestamps are minutes.  Values are integers in a fixed-point   *)
(* unit per metric: rainfall 0.01 mm, temperature 0.1 degC, humidity 1 %,  *)
(* wind_speed 1 kn, wind_direction 1 degree.  Thresholds of config.py are  *)
(* written in the same units.                                              *)
(***************************************************************************)
EXTENDS Integers, Sequences, FiniteSets, TLC

VARIABLES
    feed,         \* the metric whose endpoint delivers readings in this run
    rule,         \* the rule function the run evaluates on the feed
    readings,     \* store.readings: metric -> station -> rows (ts, value), by ts
    alerts,       \* store.alerts: the alert log, in id order
    evals,        \* evaluations of the rules on the current window
    once,         \* every window so far was evaluated exactly once
    onset_k,      \* settings.rain_onset_min_intervals of this run
    baseline,     \* rules._TEMP_BASELINE_DF: built, and station -> (ok, mu, sigma)
    prevLen,      \* length of the alert log before the last evaluation
    ticks,        \* readings ingested per station in this run
    stations_tbl, \* store.stations: station id -> [present, lat, lon]
    _stations,    \* StationIndex._stations: rows (id, lat, lon)
    _id_to_idx,   \* StationIndex._id_to_idx: id -> position in _stations
    _tree,        \* StationIndex._tree: None, or the KD-tree over the points
    _coords_km,   \* StationIndex._coords_km: None, or the projected points
    nb,           \* the last neighbors() call: its arguments and what it returned
    now,          \* the timestamp of the newest readings of the upstream
    polls,        \* iterations of the daemon loop so far
    pc,           \* the step of the daemon loop that comes next
    reporting,    \* the metrics the upstream serves in this run
    scores,       \* store.scores: rows (ts, station_id, metric, score, z)
    dispatched,   \* metric -> the rule set the last tick called for it
    _models,      \* MultiIsoForest._models: metric -> absent, unfitted, fitted
    sc,           \* one call of IsoForestModel.score: its frame and its result
    ang,          \* one call of angular_difference_deg: its arguments and results
    rd,           \* the readings table under write_readings, by primary key
    dm,           \* run_daemon: its locals and the step it is at
    ml,           \* a MultiIsoForest pool under fit_if_needed and score, and its clock
    bl,           \* the temperature baseline caches and the clock of their rebuilds
    cc,           \* two overlapping evaluations of one rule on one alert log
    eq,           \* Engine.q and the consumer thread that takes ticks from it
    hp,           \* one rule evaluated on two logs that differ in foreign alerts
    ng,           \* one call of neighbor_gap: snapshot, neighbor map, gaps
    sg,           \* one group of compute_univariate_feats: values and feature row
    tp,           \* one tick run twice with different model and neighbor state
    hx,           \* a StationIndex rebuilt statement by statement
    vz            \* the daemon loop together with the station store and index

ruleVars == <<feed, rule, readings, alerts, evals, once, onset_k, baseline, prevLen, ticks>>
indexVars == <<stations_tbl, _stations, _id_to_idx, _tree, _coords_km, nb>>
tickVars == <<now, polls, pc, reporting, scores, dispatched, _models>>
auxVars == <<sc, ang, rd, dm>>
moreVars == <<ng, sg, tp, hx, vz>>
extVars == <<ml, bl, cc, eq, hp, moreVars>>
vars == <<ruleVars, indexVars, tickVars, auxVars, extVars>>

\* everything but moreVars
baseVars == <<ruleVars, indexVars, tickVars, auxVars, ml, bl, cc, eq, hp>>

-----------------------------------------------------------------------------
(* Bounds of the model *)

\* new readings per station series in one run
MaxTicks == 8
\* evaluations of the rules on one unchanged window
MaxEvals == 2
\* dry readings already in the store in a run that starts with history
PrefillDry == 6
\* largest neighbor count k asked of the spatial index
MaxK == 2
\* iterations of the daemon loop in one run
MaxPolls == 5

-----------------------------------------------------------------------------
(* Configuration: src/app/config.py and the tuning constants of rules.py *)

Metrics == {"temperature", "rainfall", "humidity", "wind_direction", "wind_speed"}

\* station ids in sorted order: pandas groupby("station_id") iterates in it
StationOrder == <<"S1", "S2">>
Stations == {StationOrder[i] : i \in 1..Len(StationOrder)}

\* NEA realtime cadence, minutes
cadence_min == 5

cooldown_minutes == 10
_SIMPLE_DELTA_COOLDOWN_MIN == 3
rain_cooldown_minutes == 20

simple_delta_threshold(metric) ==
    CASE metric = "temperature"    -> 8      \* 0.8 degC
      [] metric = "humidity"       -> 5      \* 5.0 %
      [] metric = "wind_speed"     -> 3      \* 3.0 kn
      [] metric = "rainfall"       -> 20     \* 0.2 mm
      [] metric = "wind_direction" -> 35     \* 35.0 degrees

simple_sustained_ticks(metric) ==
    CASE metric = "temperature"    -> 2
      [] metric = "humidity"       -> 2
      [] metric = "wind_speed"     -> 2
      [] metric = "rainfall"       -> 1
      [] metric = "wind_direction" -> 2

rain_trend_window == 3
rain_onset_min_intervals == 2
rain_calm_mm == 5            \* 0.05 mm
rain_onset_tick_mm == 20     \* 0.2 mm
rain_onset_S15_mm == 50      \* 0.5 mm
rain_intense_tick_mm == 200  \* 2.0 mm
rain_intense_S15_mm == 300   \* 3.0 mm
rain_stop_quiet_intervals == 2
rain_stop_prev_window == 6

wind_strong_kn == 12
wind_very_strong_kn == 20
wind_sustain_ticks == 2

_TEMP_HIGH_RESID == 25       \* 2.5 degC
_TEMP_LOW_RESID == 30        \* 3.0 degC
_TEMP_SUSTAINED_TICKS == 2
temp_delta_min_abs == 2      \* 0.2 degC

\* the values a station can report, per metric
ValuesOf(metric) ==
    CASE metric = "temperature"    -> {240, 280, 320}
      [] metric = "humidity"       -> {50, 60}
      [] metric = "wind_speed"     -> {5, 15, 25}
      [] metric = "rainfall"       -> {0, 30, 40}
      [] metric = "wind_direction" -> {350, 10, 60}

-----------------------------------------------------------------------------
(* Sequence helpers: pandas tail / iloc slices *)

Max(a, b) == IF a >= b THEN a ELSE b
Min(a, b) == IF a <= b THEN a ELSE b
Abs(x) == IF x < 0 THEN -x ELSE x

\* s.tail(n)
Tail_n(s, n) == IF n <= 0 THEN << >>
                ELSE SubSeq(s, Max(1, Len(s) - n + 1), Len(s))

\* s.iloc[-a:-b] for a > b > 0: the rows from a-th last up to, not including, the b-th last
ILocNeg(s, a, b) == SubSeq(s, Max(1, Len(s) - a + 1), Len(s) - b)

RECURSIVE SumSeq(_)
SumSeq(s) == IF s = << >> THEN 0 ELSE Head(s) + SumSeq(Tail(s))

ValuesCol(g) == [i \in 1..Len(g) |-> g[i].value]

AllGe(s, t) == \A i \in 1..Len(s) : s[i] >= t
AllLe(s, t) == \A i \in 1..Len(s) : s[i] <= t
AnyGe(s, t) == \E i \in 1..Len(s) : s[i] >= t
AnyGt(s, t) == \E i \in 1..Len(s) : s[i] > t

-----------------------------------------------------------------------------
(* features.angular_difference_deg *)

\* the difference without its recentring on 0
angular_difference_mod(a, b) == (a - b) % 360

angular_difference_deg(a, b) == ((a - b + 180) % 360) - 180

-----------------------------------------------------------------------------
(* The alert log: store.insert_alert, rules._last_alert_time, _cooldown_ok *)

\* an alert table keyed by (station_id, metric, type): a new alert replaces
\* the earlier one of its key
replace_alert(log, ts, sid, metric, type) ==
    Append(SelectSeq(log, LAMBDA r : ~(/\ r.station_id = sid
                                       /\ r.metric = metric
                                       /\ r.type = type)),
           [id |-> Len(log) + 1, ts |-> ts, station_id |-> sid,
            metric |-> metric, type |-> type])

insert_alert(log, ts, sid, metric, type) ==
    Append(log, [id |-> Len(log) + 1, ts |-> ts, station_id |-> sid,
                 metric |-> metric, type |-> type])

_last_alert_time(log, sid, metric, type) ==
    LET hits == {i \in 1..Len(log) : /\ log[i].station_id = sid
                                     /\ log[i].metric = metric
                                     /\ log[i].type = type}
    IN IF hits = {} THEN [found |-> FALSE, ts |-> 0]
       ELSE LET last == CHOOSE i \in hits : \A j \in hits : log[j].id <= log[i].id
            IN [found |-> TRUE, ts |-> log[last].ts]

_cooldown_ok(log, sid, metric, type, ts, minutes) ==
    LET last == _last_alert_time(log, sid, metric, type)
    IN IF ~last.found THEN TRUE ELSE (ts - last.ts) >= minutes

-----------------------------------------------------------------------------
(* rules.apply_simple_delta_rules, one station group g (rows sorted by ts) *)

\* |tick-to-tick delta| of consecutive values; shortest arc for wind_direction
Deltas(metric, vals) ==
    [i \in 1..(Len(vals) - 1) |->
        IF metric = "wind_direction"
        THEN Abs(angular_difference_deg(vals[i + 1], vals[i]))
        ELSE Abs(vals[i + 1] - vals[i])]

SimpleDeltaFires(metric, g) ==
    LET thr  == simple_delta_threshold(metric)
        need == simple_sustained_ticks(metric)
        col  == ValuesCol(g)
    IN IF metric = "rainfall"
       THEN LET vals      == Tail_n(col, need)
                ok_now    == AllGe(vals, thr)
                prev_vals == IF Len(col) >= need + 1
                             THEN ILocNeg(col, need + 1, 1) ELSE << >>
                ok_prev   == Len(prev_vals) = need /\ AllGe(prev_vals, thr)
            IN Len(vals) >= need /\ ok_now /\ ~ok_prev
       ELSE LET vals    == Tail_n(col, need + 1)
                deltas  == Deltas(metric, vals)
                ok_now  == AllGe(Tail_n(deltas, need), thr)
                ok_prev == /\ Len(deltas) >= need + 1
                           /\ AllGe(ILocNeg(deltas, need + 1, 1), thr)
            IN /\ Len(col) >= need + 1
               /\ Len(deltas) >= need
               /\ ok_now /\ ~ok_prev

SimpleDeltaStation(metric, sid, g, ts, log) ==
    IF /\ SimpleDeltaFires(metric, g)
       /\ _cooldown_ok(log, sid, metric, "ALERT", ts, _SIMPLE_DELTA_COOLDOWN_MIN)
    THEN insert_alert(log, ts, sid, metric, "ALERT")
    ELSE log

-----------------------------------------------------------------------------
(* rules.apply_rain_event_rules, one station group *)

RainLongEnough(g, k) ==
    Len(g) >= Max(Max(rain_trend_window, k),
                  rain_stop_quiet_intervals + rain_stop_prev_window) + 2

RainRecentSum(g) == SumSeq(Tail_n(ValuesCol(g), rain_trend_window))

\* the sum of the W ticks that end where the recent window begins
RainPrecedingSum(g) ==
    IF Len(g) >= 2 * rain_trend_window
    THEN SumSeq(ILocNeg(ValuesCol(g), 2 * rain_trend_window, rain_trend_window))
    ELSE 0

RainPrevSum(g) ==
    IF Len(g) >= rain_trend_window + 2
    THEN SumSeq(ILocNeg(ValuesCol(g), rain_trend_window + 2, 2))
    ELSE 0

RainOnsetCond(g, k) ==
    LET recent_vals == Tail_n(ValuesCol(g), rain_trend_window)
        onset_tick_ok == AnyGe(Tail_n(recent_vals, k), rain_onset_tick_mm)
        onset_sum_ok  == RainRecentSum(g) >= rain_onset_S15_mm
        was_dry       == RainPrevSum(g) <= rain_calm_mm
    IN (onset_tick_ok \/ onset_sum_ok) /\ was_dry

RainIntenseCond(g) ==
    LET tick_now == g[Len(g)].value
    IN tick_now >= rain_intense_tick_mm \/ RainRecentSum(g) >= rain_intense_S15_mm

\* drop_frac = 0.5: recent_sum <= prev_sum * (1 - 0.5)
RainEasingCond(g) ==
    /\ RainPrevSum(g) > rain_calm_mm
    /\ 2 * RainRecentSum(g) <= RainPrevSum(g)

RainStoppedNow(g) ==
    AllLe(Tail_n(ValuesCol(g), rain_stop_quiet_intervals), rain_calm_mm)

\* the window only reaches back over the lookback span
RainHasLookback(g) ==
    Len(g) >= rain_stop_quiet_intervals + rain_stop_prev_window

RainPreviouslyWet(g) ==
    LET q == rain_stop_quiet_intervals
        prev_k == rain_stop_prev_window
        prev_span == IF Len(g) >= q + prev_k
                     THEN ILocNeg(ValuesCol(g), q + prev_k, q) ELSE << >>
    IN AnyGt(prev_span, rain_calm_mm)

RainStopCond(g) == RainStoppedNow(g) /\ RainPreviouslyWet(g)

RainEmit(cond, type, sid, ts, log) ==
    IF cond /\ _cooldown_ok(log, sid, "rainfall", type, ts, rain_cooldown_minutes)
    THEN insert_alert(log, ts, sid, "rainfall", type)
    ELSE log

RainStation(sid, g, ts, log, k) ==
    IF ~RainLongEnough(g, k) THEN log
    ELSE LET l1 == RainEmit(RainOnsetCond(g, k), "RAIN_ONSET", sid, ts, log)
             l2 == RainEmit(RainIntenseCond(g), "RAIN_INTENSE", sid, ts, l1)
             l3 == RainEmit(RainEasingCond(g), "RAIN_EASING", sid, ts, l2)
         IN RainEmit(RainStopCond(g), "RAIN_STOP", sid, ts, l3)

-----------------------------------------------------------------------------
(* rules.apply_wind_speed_rules, one station group *)

WindStation(sid, g, ts, log) ==
    LET need == wind_sustain_ticks
        v == Tail_n(ValuesCol(g), need)
    IN IF Len(v) < need THEN log
       ELSE IF /\ AllGe(v, wind_very_strong_kn)
               /\ _cooldown_ok(log, sid, "wind_speed", "WIND_VERY_STRONG", ts, cooldown_minutes)
            THEN insert_alert(log, ts, sid, "wind_speed", "WIND_VERY_STRONG")
       ELSE IF /\ AllGe(v, wind_strong_kn)
               /\ _cooldown_ok(log, sid, "wind_speed", "WIND_STRONG", ts, cooldown_minutes)
            THEN insert_alert(log, ts, sid, "wind_speed", "WIND_STRONG")
       ELSE log

-----------------------------------------------------------------------------
(* rules.apply_temperature_baseline_rules, one station group.              *)
(* base is the cached baseline: built is what ensure_temp_baseline()       *)
(* returns, rows maps a station to [ok, mu, sigma]; ok is FALSE where the  *)
(* merge leaves mu null (no row, or fewer than _TEMP_MIN_DAYS days).       *)

ensure_temp_baseline(base) == base.built

TempResids(sid, g, base) ==
    [i \in 1..Len(g) |-> g[i].value - base.rows[sid].mu]

TempStation(sid, g, ts, log, base) ==
    LET need == _TEMP_SUSTAINED_TICKS
    IN IF Len(g) < need \/ ~base.rows[sid].ok THEN log
       ELSE LET last_resids == Tail_n(TempResids(sid, g, base), need)
            IN IF AllGe(last_resids, _TEMP_HIGH_RESID)
               THEN insert_alert(log, ts, sid, "temperature", "TEMP_HIGH_UNUSUAL")
               ELSE IF AllLe(last_resids, -_TEMP_LOW_RESID)
               THEN insert_alert(log, ts, sid, "temperature", "TEMP_LOW_UNUSUAL")
               ELSE log

-----------------------------------------------------------------------------
(* One call of a rule function on the window w of a metric (station ->     *)
(* rows): the loop over the station groups, in sorted station order.       *)

RuleStation(r, metric, sid, g, ts, log, k, base) ==
    CASE r = "simple_delta"  -> SimpleDeltaStation(metric, sid, g, ts, log)
      [] r = "rain_event"    -> RainStation(sid, g, ts, log, k)
      [] r = "wind_speed"    -> WindStation(sid, g, ts, log)
      [] r = "temp_baseline" -> TempStation(sid, g, ts, log, base)
      [] OTHER               -> log

RECURSIVE RuleLoop(_, _, _, _, _, _, _, _)
RuleLoop(i, r, metric, w, ts, log, k, base) ==
    IF i > Len(StationOrder) THEN log
    ELSE LET sid == StationOrder[i]
             nxt == IF w[sid] = << >> THEN log
                    ELSE RuleStation(r, metric, sid, w[sid], ts, log, k, base)
         IN RuleLoop(i + 1, r, metric, w, ts, nxt, k, base)

WindowEmpty(w) == \A s \in Stations : w[s] = << >>

ApplyRule(r, metric, w, ts, log, k, base) ==
    IF WindowEmpty(w) THEN log
    ELSE IF r = "temp_baseline" /\ ~ensure_temp_baseline(base) THEN log
    ELSE RuleLoop(1, r, metric, w, ts, log, k, base)

-----------------------------------------------------------------------------
(* engine.Engine.process_tick, lines 155-182: the rule a metric goes to.   *)
(* The three guarded imports of engine.py: rules.py defines                *)
(* apply_rain_event_rules and apply_wind_speed_rules and no                *)
(* apply_temp_tod_rules, so that name is bound to None.                    *)

apply_rain_event_rules_callable == TRUE
apply_wind_speed_rules_callable == TRUE
apply_temp_tod_rules_callable == FALSE

Dispatch(metric, tod_ready) ==
    IF metric = "rainfall" /\ apply_rain_event_rules_callable THEN "rain_event"
    ELSE IF metric = "wind_speed" /\ apply_wind_speed_rules_callable THEN "wind_speed"
    ELSE IF metric = "temperature" /\ apply_temp_tod_rules_callable
         THEN (IF tod_ready THEN "temp_tod" ELSE "simple_delta")
    ELSE "simple_delta"

-----------------------------------------------------------------------------
(* The reading store and the evaluation timestamp *)

Row(ts, v) == [ts |-> ts, value |-> v]

EmptyStore == [m \in Metrics |-> [s \in Stations |-> << >>]]

\* a store holding n dry rainfall readings of station S1, one per cadence tick
DryHistory(n) ==
    [EmptyStore EXCEPT !["rainfall"]["S1"] = [i \in 1..n |-> Row((i - 1) * cadence_min, 0)]]

LastTs(g) == g[Len(g)].ts

\* the next cadence timestamp after every row of the metric
NextTs(w) ==
    IF WindowEmpty(w) THEN 0
    ELSE cadence_min +
         (CHOOSE t \in {LastTs(w[s]) : s \in {x \in Stations : w[x] # << >>}} :
             \A s \in {x \in Stations : w[x] # << >>} : LastTs(w[s]) <= t)

\* engine.process_tick line 159: t_cur = g.ts.iloc[0], g the latest rows of the
\* metric in ascending ts order: the oldest of the stations' latest timestamps
TCur(w) ==
    CHOOSE t \in {LastTs(w[s]) : s \in {x \in Stations : w[x] # << >>}} :
        \A s \in {x \in Stations : w[x] # << >>} : t <= LastTs(w[s])

\* the alerts the last evaluation emitted
Emitted == SubSeq(alerts, prevLen + 1, Len(alerts))

EmittedTypes == {Emitted[i].type : i \in 1..Len(Emitted)}

-----------------------------------------------------------------------------
(* The temperature baselines a run can hold *)

\* a valid time-of-day baseline of S1: median 28.0 degC, sigma 1.0 degC
BaselineOk ==
    [built |-> TRUE,
     rows |-> [s \in Stations |-> [ok |-> s = "S1", mu |-> 280, sigma |-> 10]]]
\* a baseline whose rows for the stations are below the minimum day coverage
BaselineThin ==
    [built |-> TRUE,
     rows |-> [s \in Stations |-> [ok |-> FALSE, mu |-> 0, sigma |-> 0]]]
\* no temperature reading in the lookback: ensure_temp_baseline() is False
BaselineNone ==
    [built |-> FALSE,
     rows |-> [s \in Stations |-> [ok |-> FALSE, mu |-> 0, sigma |-> 0]]]

-----------------------------------------------------------------------------
(* stations.StationIndex.  Latitudes and longitudes are whole degrees.     *)
(* _to_xy_km gives x = (lon - mean lon) * cos(mean lat) * 111.32 and       *)
(* y = (lat - mean lat) * 111.32; the model keeps the same points scaled   *)
(* by n * 100 / 111.32 (n the number of stations), with cos to 2           *)
(* decimals, and compares squared distances.                               *)

\* the stations the upstream can report, in the order the stations table
\* lists them
IndexIds == <<"S1", "S2", "S3">>
IndexIdSet == {IndexIds[i] : i \in 1..Len(IndexIds)}

\* the coordinates a station can have
Positions == {[lat |-> 0, lon |-> 0], [lat |-> 0, lon |-> 1], [lat |-> 60, lon |-> 0]}

Absent == [present |-> FALSE, lat |-> 0, lon |-> 0]

NoStations == [id \in IndexIdSet |-> Absent]

\* store.upsert_stations of one row: INSERT OR REPLACE by station_id
upsert_stations(tbl, id, pos) ==
    [tbl EXCEPT ![id] = [present |-> TRUE, lat |-> pos.lat, lon |-> pos.lon]]

\* store.all_stations: the rows (id, lat, lon) of the table
RECURSIVE AllStationsFrom(_, _)
AllStationsFrom(tbl, i) ==
    IF i > Len(IndexIds) THEN << >>
    ELSE LET rest == AllStationsFrom(tbl, i + 1)
             id == IndexIds[i]
         IN IF tbl[id].present
            THEN <<[id |-> id, lat |-> tbl[id].lat, lon |-> tbl[id].lon]>> \o rest
            ELSE rest

all_stations(tbl) == AllStationsFrom(tbl, 1)

\* 100 * cos of a latitude in degrees, to the nearest 5 degrees
CosCenti(deg) ==
    LET a == (Abs(deg) + 2) \div 5
    IN CASE a = 0 -> 100 [] a = 1 -> 100 [] a = 2 -> 98 [] a = 3 -> 97
         [] a = 4 -> 94  [] a = 5 -> 91  [] a = 6 -> 87 [] a = 7 -> 82
         [] a = 8 -> 77  [] a = 9 -> 71  [] a = 10 -> 64 [] a = 11 -> 57
         [] OTHER -> 50

\* stations._to_xy_km
_to_xy_km(rows) ==
    LET n == Len(rows)
        sumLat == SumSeq([i \in 1..n |-> rows[i].lat])
        sumLon == SumSeq([i \in 1..n |-> rows[i].lon])
        c == CosCenti(sumLat \div n)
    IN [i \in 1..n |-> [x |-> (n * rows[i].lon - sumLon) * c,
                        y |-> (n * rows[i].lat - sumLat) * 100]]

\* squared euclidean distance of two projected points
Dist2(p, q) == (p.x - q.x) * (p.x - q.x) + (p.y - q.y) * (p.y - q.y)

NoTree == [built |-> FALSE, data |-> << >>]
NoCoords == [set |-> FALSE, pts |-> << >>]
NoIds == [id \in {} |-> 0]

\* StationIndex.ready
ready == _tree.built /\ _coords_km.set /\ Len(_stations) >= 2

\* KDTree.query(point, k): the sequences of k distinct rows, nearest first, that
\* hold k nearest rows of the tree; rows at equal distance come in any order
TreeQuery(tree, point, k) ==
    LET n == Len(tree.data)
        d(j) == Dist2(tree.data[j], point)
    IN {ind \in [1..k -> 1..n] :
           /\ \A a, b \in 1..k : a < b => ind[a] # ind[b] /\ d(ind[a]) <= d(ind[b])
           /\ \A j \in 1..n : (\A a \in 1..k : ind[a] # j)
                                 => \A a \in 1..k : d(ind[a]) <= d(j)}

\* neighbors() line 94
k_eff(k) == Max(1, Min(k + 1, Len(_stations)))

\* the loop of neighbors() without its "if sid == station_id: continue"
RECURSIVE KeepSelf(_, _, _, _)
KeepSelf(ind, idx, station_id, a) ==
    IF a > Len(ind) THEN << >>
    ELSE <<[sid |-> _stations[ind[a]].id,
            d |-> Dist2(_tree.data[ind[a]], _coords_km.pts[idx])]>>
         \o KeepSelf(ind, idx, station_id, a + 1)

\* the loop of neighbors(), lines 96-101: the rows (id, distance) of the query
\* result, the queried station skipped
RECURSIVE SkipSelf(_, _, _, _)
SkipSelf(ind, idx, station_id, a) ==
    IF a > Len(ind) THEN << >>
    ELSE LET rest == SkipSelf(ind, idx, station_id, a + 1)
             sid == _stations[ind[a]].id
         IN IF sid = station_id THEN rest
            ELSE <<[sid |-> sid, d |-> Dist2(_tree.data[ind[a]], _coords_km.pts[idx])]>>
                 \o rest

\* the result of the loop returned whole, without the cut of line 103
WholeOut(out, k) == out

\* out[:k]
FirstK(out, k) == SubSeq(out, 1, Min(k, Len(out)))

\* the early return of neighbors() without its test of the station id
ReturnsEmptyNotReady(station_id) == ~ready

\* the early return of neighbors(), line 91: not ready, or an unknown station
ReturnsEmpty(station_id) == ~ready \/ station_id \notin DOMAIN _id_to_idx

\* StationIndex.neighbors(station_id, k) past the early return, for the query
\* result ind
neighbors(station_id, k, ind) ==
    LET idx == _id_to_idx[station_id]
    IN FirstK(SkipSelf(ind, idx, station_id, 1), k)

Idle == [state |-> "idle", station_id |-> "S1", k |-> 0, raised |-> FALSE, out |-> << >>]

Returned(station_id, k, raised, out) ==
    [state |-> "done", station_id |-> station_id, k |-> k, raised |-> raised, out |-> out]

-----------------------------------------------------------------------------
(* features.compute_univariate_feats, model.MultiIsoForest and the parts   *)
(* of engine.Engine.process_tick around them.  A feature or a score is     *)
(* modelled by whether it is null (NaN) or a number.                       *)

rolling_window_minutes == 90
\* rolling(win, min_periods=5)
min_periods == 5
\* IsoForestModel.fit_if_needed(min_rows=200)
min_rows == 200

\* process_tick line 78
samples_per_station == Max(6, rolling_window_minutes \div cadence_min + 4)

\* process_tick lines 80-86
n_per_metric == Max(1, Len(_stations)) * samples_per_station

\* latest.groupby("metric"): the groups come in key order
MetricOrder == <<"humidity", "rainfall", "temperature", "wind_direction", "wind_speed">>

StationPos(s) == CHOOSE i \in 1..Len(StationOrder) : StationOrder[i] = s

\* store.get_latest_readings(metric, None, n): the n newest rows of the metric
\* (ORDER BY ts DESC LIMIT n; rows of one ts are taken in station order), as
\* station -> rows by ts
get_latest_readings(store, metric, n) ==
    LET part == store[metric]
        Before(s, i) ==
            UNION {{<<x, j>> : j \in {q \in 1..Len(part[x]) :
                        \/ part[x][q].ts > part[s][i].ts
                        \/ part[x][q].ts = part[s][i].ts /\ StationPos(x) < StationPos(s)}} :
                   x \in Stations}
        Kept(s) == {i \in 1..Len(part[s]) : Cardinality(Before(s, i)) < n}
        total == SumSeq([i \in 1..Len(StationOrder) |-> Len(part[StationOrder[i]])])
    IN IF total <= n THEN part
       ELSE [s \in Stations |-> Tail_n(part[s], Cardinality(Kept(s)))]

\* the rows of the partition g inside the time window that ends at row i:
\* rolling("90T") takes ts in (g[i].ts - window, g[i].ts]
InWindow(g, i) == {j \in 1..i : g[j].ts > g[i].ts - rolling_window_minutes}

\* mu, sigma and the median of row i are null below min_periods samples
StatsNull(g, i) == Cardinality(InWindow(g, i)) < min_periods

\* z of row i: (v - mu) / sigma with sigma floored; for wind_direction the
\* angular difference over the circular std, a std of 0 replaced by NaN
ZNull(metric, g, i) ==
    \/ StatsNull(g, i)
    \/ /\ metric = "wind_direction"
       /\ \A j \in InWindow(g, i) : g[j].value % 360 = g[i].value % 360

\* z_robust of row i: (v - med) / (1.4826 * mad), mad the rolling median of
\* |v - med| over the rows whose median is not null; for wind_direction it is z
ZRobustNull(metric, g, i) ==
    IF metric = "wind_direction" THEN ZNull(metric, g, i)
    ELSE \/ StatsNull(g, i)
         \/ Cardinality({j \in InWindow(g, i) : ~StatsNull(g, j)}) < min_periods

\* IsoForestModel.fit_if_needed on a feature frame of the given number of rows
fit_if_needed(state, rows) ==
    IF rows < min_rows THEN state ELSE "fitted"

\* MultiIsoForest._get
_get(models, metric) ==
    IF models[metric] = "absent" THEN "unfitted" ELSE models[metric]

\* IsoForestModel.score of the latest row of g: tanh(max(|z|, |z_robust|) / 3)
\* on a cold start, else the normalised forest score of the row with its nulls
\* filled with 0
score(state, metric, g) ==
    IF state = "fitted" THEN "num"
    ELSE IF ZNull(metric, g, Len(g)) \/ ZRobustNull(metric, g, Len(g)) THEN "nan"
    ELSE "num"

\* process_tick lines 145-152: one score row per latest row of the metric
score_rows(metric, w, state) ==
    {[ts |-> LastTs(w[s]), station_id |-> s, metric |-> metric,
      score |-> score(state, metric, w[s]),
      z_null |-> ZNull(metric, w[s], Len(w[s]))] :
        s \in {x \in Stations : w[x] # << >>}}

\* store.write_scores: INSERT OR REPLACE by (ts, station_id, metric, method)
write_scores(tbl, rows) ==
    {r \in tbl : ~\E n \in rows : /\ n.ts = r.ts
                                  /\ n.station_id = r.station_id
                                  /\ n.metric = r.metric}
    \cup rows

\* Engine._ensure_temp_baseline() and a reference that is not None
_ensure_temp_baseline == baseline.built

\* the loop of process_tick over the metrics, lines 116-184: the alert log
RECURSIVE TickRules(_, _, _)
TickRules(i, win, log) ==
    IF i > Len(MetricOrder) THEN log
    ELSE LET m == MetricOrder[i]
             nxt == IF WindowEmpty(win[m]) THEN log
                    ELSE ApplyRule(Dispatch(m, _ensure_temp_baseline), m, win[m],
                                   TCur(win[m]), log, rain_onset_min_intervals, baseline)
         IN TickRules(i + 1, win, nxt)

\* the two values a station reports per metric: a calm one and a raised one
LevelsOf(metric) ==
    CASE metric = "temperature" -> <<280, 320>>
      [] metric = "humidity" -> <<50, 60>>
      [] metric = "wind_speed" -> <<5, 25>>
      [] metric = "rainfall" -> <<0, 40>>
      [] OTHER -> <<10, 60>>

NoDispatch == [m \in Metrics |-> "none"]
NoModels == [m \in Metrics |-> "absent"]

-----------------------------------------------------------------------------
(* The parts of the state a specification leaves alone *)

IndexFresh ==
    /\ _stations = << >>
    /\ _id_to_idx = NoIds
    /\ _tree = NoTree
    /\ _coords_km = NoCoords
    /\ nb = Idle

RulesIdle ==
    /\ feed = "rainfall"
    /\ rule = "rain_event"
    /\ onset_k = rain_onset_min_intervals
    /\ evals = 0
    /\ once = TRUE
    /\ prevLen = 0
    /\ ticks = 0

TickIdle ==
    /\ now = 0
    /\ polls = 0
    /\ pc = "poll"
    /\ reporting = {}
    /\ scores = {}
    /\ dispatched = NoDispatch
    /\ _models = NoModels

ScoreIdle == sc = "idle"
AngleIdle == ang = "idle"
ReadingsIdle == rd = "idle"
DaemonIdle == dm = "idle"

PoolIdle == ml = "idle"
BaselineIdle == bl = "idle"
OverlapIdle == cc = "idle"
QueueIdle == eq = "idle"
PairIdle == hp = "idle"

GapIdle == ng = "idle"
SigmaIdle == sg = "idle"
TwinIdle == tp = "idle"
RebuildIdle == hx = "idle"
VisibleIdle == vz = "idle"

MoreIdle == GapIdle /\ SigmaIdle /\ TwinIdle /\ RebuildIdle /\ VisibleIdle

ExtIdle == PoolIdle /\ BaselineIdle /\ OverlapIdle /\ QueueIdle /\ PairIdle /\ MoreIdle

\* the others of these are idle
ExtIdleBut(v) ==
    /\ IF v = "ml" THEN TRUE ELSE PoolIdle
    /\ IF v = "bl" THEN TRUE ELSE BaselineIdle
    /\ IF v = "cc" THEN TRUE ELSE OverlapIdle
    /\ IF v = "eq" THEN TRUE ELSE QueueIdle
    /\ IF v = "hp" THEN TRUE ELSE PairIdle
    /\ IF v = "ng" THEN TRUE ELSE GapIdle
    /\ IF v = "sg" THEN TRUE ELSE SigmaIdle
    /\ IF v = "tp" THEN TRUE ELSE TwinIdle
    /\ IF v = "hx" THEN TRUE ELSE RebuildIdle
    /\ IF v = "vz" THEN TRUE ELSE VisibleIdle

AuxOnlyIdle == ScoreIdle /\ AngleIdle /\ ReadingsIdle /\ DaemonIdle

AuxIdle == ScoreIdle /\ AngleIdle /\ ReadingsIdle /\ DaemonIdle /\ ExtIdle

-----------------------------------------------------------------------------
(* Rule evaluation runs: one station (S1) reports the fed metric; after    *)
(* each new reading the rule function is called on the window with the     *)
(* timestamp of the latest rows, and it may be called again on the         *)
(* unchanged window (the 60 s loop outpaces the 5-minute cadence).         *)

RuleRuns ==
    \* what the engine dispatches each metric to
    {[feed |-> m, rule |-> Dispatch(m, FALSE), k |-> rain_onset_min_intervals,
      base |-> BaselineNone, store |-> EmptyStore] : m \in Metrics}
    \cup
    \* the rain rules with onset_k = 1 or 2, from an empty store or after dry history
    {[feed |-> "rainfall", rule |-> "rain_event", k |-> kk,
      base |-> BaselineNone, store |-> st] :
        kk \in {1, rain_onset_min_intervals}, st \in {EmptyStore, DryHistory(PrefillDry)}}
    \cup
    \* the generic rule called on rainfall
    {[feed |-> "rainfall", rule |-> "simple_delta", k |-> rain_onset_min_intervals,
      base |-> BaselineNone, store |-> EmptyStore]}
    \cup
    \* the temperature baseline rule, with and without a baseline
    {[feed |-> "temperature", rule |-> "temp_baseline", k |-> rain_onset_min_intervals,
      base |-> b, store |-> EmptyStore] : b \in {BaselineNone, BaselineOk, BaselineThin}}

InitRules ==
    /\ \E run \in RuleRuns :
        /\ feed = run.feed
        /\ rule = run.rule
        /\ onset_k = run.k
        /\ baseline = run.base
        /\ readings = run.store
    /\ alerts = << >>
    /\ evals = 0
    /\ once = TRUE
    /\ prevLen = 0
    /\ ticks = 0
    /\ stations_tbl = NoStations
    /\ IndexFresh
    /\ TickIdle
    /\ AuxIdle

Evaluate(store) ==
    ApplyRule(rule, feed, store[feed], TCur(store[feed]), alerts, onset_k, baseline)

\* a new reading of S1 arrives and the rule is evaluated on the new window
Tick(v) ==
    /\ ticks < MaxTicks
    /\ evals >= 1 \/ ticks = 0
    /\ LET ts == NextTs(readings[feed])
           store == [readings EXCEPT ![feed]["S1"] = Append(@, Row(ts, v))]
       IN /\ readings' = store
          /\ alerts' = Evaluate(store)
    /\ prevLen' = Len(alerts)
    /\ ticks' = ticks + 1
    /\ evals' = 1
    /\ UNCHANGED <<feed, rule, once, onset_k, baseline>>
    /\ UNCHANGED <<indexVars, tickVars, auxVars, extVars>>

\* the rule is evaluated again on the unchanged window
ReEvaluate ==
    /\ evals >= 1
    /\ evals < MaxEvals
    /\ alerts' = Evaluate(readings)
    /\ prevLen' = Len(alerts)
    /\ evals' = evals + 1
    /\ once' = FALSE
    /\ UNCHANGED <<feed, rule, readings, onset_k, baseline, ticks>>
    /\ UNCHANGED <<indexVars, tickVars, auxVars, extVars>>

NextRules ==
    \/ \E v \in ValuesOf(feed) : Tick(v)
    \/ ReEvaluate

SpecRules == InitRules /\ [][NextRules]_vars

-----------------------------------------------------------------------------
(* The spatial index: stations are upserted into the store, the index is   *)
(* rebuilt from the store, and neighbors() is called on what it holds.     *)

\* store.upsert_stations of one row
UpsertStation(id, pos) ==
    /\ stations_tbl' = upsert_stations(stations_tbl, id, pos)
    /\ stations_tbl' # stations_tbl
    /\ nb' = Idle
    /\ UNCHANGED <<_stations, _id_to_idx, _tree, _coords_km>>
    /\ UNCHANGED <<ruleVars, tickVars, auxVars, extVars>>

\* StationIndex._hydrate
Hydrate ==
    /\ LET rows == all_stations(stations_tbl)
       IN
        /\ _stations' = rows
        /\ IF Len(rows) = 0
           THEN /\ _tree' = NoTree
                /\ _coords_km' = NoCoords
                /\ _id_to_idx' = NoIds
           ELSE LET pts == _to_xy_km(rows)
                IN /\ _coords_km' = [set |-> TRUE, pts |-> pts]
                   /\ _tree' = [built |-> TRUE, data |-> pts]
                   /\ _id_to_idx' = [id \in {rows[i].id : i \in 1..Len(rows)} |->
                                        CHOOSE i \in 1..Len(rows) : rows[i].id = id]
    /\ nb' = Idle
    /\ UNCHANGED stations_tbl
    /\ UNCHANGED <<ruleVars, tickVars, auxVars, extVars>>

\* one call neighbors(station_id, k): the early return, or a KeyError on
\* _id_to_idx[station_id], or the rows of a KD-tree query
Query(station_id, k) ==
    /\ IF ReturnsEmpty(station_id)
       THEN nb' = Returned(station_id, k, FALSE, << >>)
       ELSE IF station_id \notin DOMAIN _id_to_idx
       THEN nb' = Returned(station_id, k, TRUE, << >>)
       ELSE \E ind \in TreeQuery(_tree, _coords_km.pts[_id_to_idx[station_id]], k_eff(k)) :
               nb' = Returned(station_id, k, FALSE, neighbors(station_id, k, ind))
    /\ nb' # nb
    /\ UNCHANGED <<stations_tbl, _stations, _id_to_idx, _tree, _coords_km>>
    /\ UNCHANGED <<ruleVars, tickVars, auxVars, extVars>>

InitIndex ==
    /\ stations_tbl = NoStations
    /\ IndexFresh
    /\ RulesIdle
    /\ baseline = BaselineNone
    /\ readings = EmptyStore
    /\ alerts = << >>
    /\ TickIdle
    /\ AuxIdle

NextIndex ==
    \/ \E id \in IndexIdSet, pos \in Positions : UpsertStation(id, pos)
    \/ Hydrate
    \/ \E id \in IndexIdSet, k \in 0..MaxK : Query(id, k)

SpecIndex == InitIndex /\ [][NextIndex]_vars

-----------------------------------------------------------------------------
(* The daemon loop: poll_once() writes the readings the upstream serves,   *)
(* then process_tick() scores the latest rows and runs the rules.  The     *)
(* upstream serves the metrics of reporting; S1 reports in every poll      *)
(* that brings readings, S2 in some; a poll after an outage comes a whole  *)
(* window later.                                                           *)

\* the sets of metrics the upstream serves in a run
ReportingSets == {Metrics, {"temperature"}}

\* what one poll brings: nothing new; a calm or a raised reading of S1; a raised
\* reading of both stations; a calm reading of S1 after an outage of one window
PollKinds ==
    {[rep |-> {}, lvl |-> 1, gap |-> cadence_min],
     [rep |-> {"S1"}, lvl |-> 1, gap |-> cadence_min],
     [rep |-> {"S1"}, lvl |-> 2, gap |-> cadence_min],
     [rep |-> {"S1", "S2"}, lvl |-> 2, gap |-> cadence_min],
     [rep |-> {"S1"}, lvl |-> 1, gap |-> rolling_window_minutes]}

InitTick ==
    /\ now = 0
    /\ polls = 0
    /\ pc = "poll"
    /\ reporting \in ReportingSets
    /\ scores = {}
    /\ dispatched = NoDispatch
    /\ _models = NoModels
    /\ baseline \in {BaselineNone, BaselineOk}
    /\ readings = EmptyStore
    /\ alerts = << >>
    /\ RulesIdle
    /\ stations_tbl = NoStations
    /\ IndexFresh
    /\ AuxIdle

\* collector.poll_once: the readings of the stations in rep, stamped by the
\* upstream gap minutes after the previous ones, are written to the store
PollOnce(rep, lvl, gap) ==
    /\ pc = "poll"
    /\ polls < MaxPolls
    /\ now' = IF rep = {} THEN now ELSE now + gap
    /\ readings' = [m \in Metrics |-> [s \in Stations |->
                        IF m \in reporting /\ s \in rep
                        THEN Append(readings[m][s], Row(now', LevelsOf(m)[lvl]))
                        ELSE readings[m][s]]]
    /\ polls' = polls + 1
    /\ pc' = "tick"
    /\ UNCHANGED <<reporting, scores, dispatched, _models>>
    /\ UNCHANGED <<feed, rule, alerts, evals, once, onset_k, baseline, prevLen, ticks>>
    /\ UNCHANGED <<indexVars, auxVars, extVars>>

\* every metric, whether or not the tick found rows of it
AllMetrics(win) == Metrics

\* process_tick line 116: the metrics of the groups of latest.groupby("metric")
PresentMetrics(win) == {m \in Metrics : ~WindowEmpty(win[m])}

\* engine.Engine.process_tick
ProcessTick ==
    /\ pc = "tick"
    /\ LET win == [m \in Metrics |-> get_latest_readings(readings, m, n_per_metric)]
           present == PresentMetrics(win)
           rows(m) == SumSeq([i \in 1..Len(StationOrder) |-> Len(win[m][StationOrder[i]])])
           pool == [m \in Metrics |->
                       IF m \in present THEN fit_if_needed(_get(_models, m), rows(m))
                       ELSE _models[m]]
       IN /\ _models' = pool
          /\ scores' = write_scores(scores,
                           UNION {score_rows(m, win[m], pool[m]) : m \in present})
          /\ alerts' = TickRules(1, win, alerts)
          /\ dispatched' = [m \in Metrics |->
                               IF m \in present THEN Dispatch(m, _ensure_temp_baseline)
                               ELSE "none"]
    /\ pc' = "poll"
    /\ UNCHANGED <<now, polls, reporting>>
    /\ UNCHANGED <<feed, rule, readings, evals, once, onset_k, baseline, prevLen, ticks>>
    /\ UNCHANGED <<indexVars, auxVars, extVars>>

NextTick ==
    \/ \E p \in PollKinds : PollOnce(p.rep, p.lvl, p.gap)
    \/ ProcessTick

SpecTick == InitTick /\ [][NextTick]_vars

-----------------------------------------------------------------------------
(* Claims about the rule engine, checked under SpecRules *)

\* the series of S1 in the fed metric, and its values
Series == readings[feed]["S1"]
SeriesValues == ValuesCol(Series)

\* the run started from an empty store and evaluated every window exactly once
OnceFromEmpty == once /\ evals = 1 /\ ticks = Len(Series)

\* the ids of the logged alerts of one type
OfType(type) == {i \in 1..Len(alerts) : alerts[i].type = type}

\* the cooldown the configuration gives each alert type, minutes
CooldownOf(type) ==
    CASE type = "ALERT" -> _SIMPLE_DELTA_COOLDOWN_MIN
      [] type \in {"RAIN_ONSET", "RAIN_INTENSE", "RAIN_EASING", "RAIN_STOP"}
            -> rain_cooldown_minutes
      [] OTHER -> cooldown_minutes

SameKey(a, b) ==
    a.station_id = b.station_id /\ a.metric = b.metric /\ a.type = b.type

\* C1: every logged alert either has no earlier alert of its (station, metric,
\* type) key, or was emitted at least the configured cooldown after the most
\* recent earlier alert of that key -- for every alert type.
C1_CooldownEveryType ==
    \A j \in 1..Len(alerts) : \A i \in 1..(j - 1) :
        SameKey(alerts[i], alerts[j])
            => alerts[j].ts - alerts[i].ts >= CooldownOf(alerts[j].type)

\* the sustained condition of the generic rule on a series: the last N deltas
\* (for rainfall, the last N raw values) all meet the threshold
SustainedCond(metric, col) ==
    LET thr  == simple_delta_threshold(metric)
        need == simple_sustained_ticks(metric)
    IN IF metric = "rainfall"
       THEN Len(col) >= need /\ AllGe(Tail_n(col, need), thr)
       ELSE Len(col) >= need + 1 /\ AllGe(Tail_n(Deltas(metric, col), need), thr)

\* C2: the generic sustained-delta rule, evaluated once per new reading, emits
\* nothing at a tick where the sustained condition was already true one tick
\* earlier.
C2_SimpleDeltaEdgeTriggered ==
    (/\ rule = "simple_delta"
     /\ OnceFromEmpty
     /\ Len(Series) >= 2
     /\ SustainedCond(feed, SubSeq(SeriesValues, 1, Len(Series) - 1)))
        => Emitted = << >>

\* C3: an evaluation of the wind rule on a station whose last N ticks are all
\* at or above the very-strong threshold emits no WIND_STRONG alert.
C3_VeryStrongSuppressesStrong ==
    (/\ rule = "wind_speed"
     /\ evals >= 1
     /\ Len(Series) >= wind_sustain_ticks
     /\ AllGe(Tail_n(SeriesValues, wind_sustain_ticks), wind_very_strong_kn))
        => "WIND_STRONG" \notin EmittedTypes

\* C4: after 3 consecutive ticks of 25 kn from an empty log, each followed by
\* one evaluation of the wind rule, the log holds exactly one WIND_VERY_STRONG
\* alert, stamped with the 2nd tick, and no WIND_STRONG alert.
C4_WindScenario ==
    (/\ rule = "wind_speed"
     /\ OnceFromEmpty
     /\ SeriesValues = <<25, 25, 25>>)
        => /\ Cardinality(OfType("WIND_VERY_STRONG")) = 1
           /\ \A i \in OfType("WIND_VERY_STRONG") : alerts[i].ts = Series[2].ts
           /\ OfType("WIND_STRONG") = {}

\* C5: after the rainfall series [0, 0, 0.3, 0.4, 0.3, 0, 0, 0] mm from an
\* empty log, with onset_k = 1 and one evaluation of the rain rules per tick,
\* the log holds exactly one RAIN_ONSET, stamped with the first 0.3 tick, and
\* exactly one RAIN_STOP, stamped with the second dry tick after the rain.
C5_RainScenario ==
    (/\ rule = "rain_event"
     /\ onset_k = 1
     /\ OnceFromEmpty
     /\ SeriesValues = <<0, 0, 30, 40, 30, 0, 0, 0>>)
        => /\ Cardinality(OfType("RAIN_ONSET")) = 1
           /\ \A i \in OfType("RAIN_ONSET") : alerts[i].ts = Series[3].ts
           /\ Cardinality(OfType("RAIN_STOP")) = 1
           /\ \A i \in OfType("RAIN_STOP") : alerts[i].ts = Series[7].ts

temp_z_tod_hi == 3
temp_z_tod_lo == -3

\* row i of the series moved by at least delta_min from the row before it, and
\* its baseline z-score (resid / sigma) is beyond the high or the low threshold
MovedAndBeyond(i) ==
    LET resid == Series[i].value - baseline.rows["S1"].mu
        sigma == baseline.rows["S1"].sigma
    IN /\ i >= 2
       /\ Abs(Series[i].value - Series[i - 1].value) >= temp_delta_min_abs
       /\ \/ resid >= temp_z_tod_hi * sigma
          \/ resid <= temp_z_tod_lo * sigma

\* C6: an evaluation emits TEMP_HIGH_UNUSUAL or TEMP_LOW_UNUSUAL only if each
\* of the last N ticks is beyond the z threshold and moved by at least
\* delta_min; a flat series at baseline + 4 degC therefore logs no alert.
C6_TemperatureMovementGuard ==
    (EmittedTypes \cap {"TEMP_HIGH_UNUSUAL", "TEMP_LOW_UNUSUAL"} # {})
        => \A i \in (Len(Series) - _TEMP_SUSTAINED_TICKS + 1)..Len(Series) :
              MovedAndBeyond(i)

-----------------------------------------------------------------------------
(* Claims about the dispatch of process_tick, checked under SpecTick *)

\* a valid temperature baseline is available to the tick
BaselineAvailable == baseline.built /\ \E s \in Stations : baseline.rows[s].ok

\* the rule set the specification gives a metric
ExpectedRule(metric) ==
    CASE metric = "rainfall" -> {"rain_event"}
      [] metric = "wind_speed" -> {"wind_speed"}
      [] metric = "temperature" ->
            IF BaselineAvailable THEN {"temp_tod", "temp_baseline"} ELSE {"simple_delta"}
      [] OTHER -> {"simple_delta"}

\* C7: in each tick every metric present in the feature set goes to one rule
\* set: rainfall to the rain-event rules, wind_speed to the wind rules,
\* temperature to the time-of-day baseline rule whenever a valid baseline is
\* available and to the generic sustained-delta rule only when it is not, and
\* every other metric to the generic sustained-delta rule.
C7_DispatchByMetric ==
    \A m \in Metrics : dispatched[m] # "none" => dispatched[m] \in ExpectedRule(m)

-----------------------------------------------------------------------------
(* Claims about the spatial index, checked under SpecIndex *)

\* C8: the list a call neighbors(station_id, k) returns never holds station_id
\* itself, has at most k entries, and is sorted by ascending distance.
C8_NeighborsShape ==
    nb.state = "done" =>
        /\ \A a \in 1..Len(nb.out) : nb.out[a].sid # nb.station_id
        /\ Len(nb.out) <= nb.k
        /\ \A a, b \in 1..Len(nb.out) : a < b => nb.out[a].d <= nb.out[b].d

\* a call that returned two neighbors, the second farther than the first
C8_Witness ==
    /\ nb.state = "done"
    /\ Len(nb.out) = 2
    /\ nb.out[1].d < nb.out[2].d

\* C9: neighbors(station_id, k) returns the empty list, and does not raise,
\* whenever the index holds fewer than 2 stations (before the first rebuild and
\* after a rebuild from an empty station store included) or station_id is not
\* in the index.
C9_NeighborsEmptyWhenNotReady ==
    (/\ nb.state = "done"
     /\ \/ Len(_stations) < 2
        \/ \A i \in 1..Len(_stations) : _stations[i].id # nb.station_id)
        => nb.out = << >> /\ ~nb.raised

\* a call for a station that an index of two or more stations does not hold
C9_Witness ==
    /\ nb.state = "done"
    /\ Len(_stations) >= 2
    /\ \A i \in 1..Len(_stations) : _stations[i].id # nb.station_id
    /\ nb.out = << >>
    /\ ~nb.raised

-----------------------------------------------------------------------------
(* Claims about the features and the scores, checked under SpecTick *)

\* the row of the (metric, station) partition a score row was computed on
ScoredRow(r) ==
    CHOOSE i \in 1..Len(readings[r.metric][r.station_id]) :
        readings[r.metric][r.station_id][i].ts = r.ts

\* C10: a station whose (metric, station) partition has fewer than 5 samples
\* inside the rolling time window has null statistics for that row and is
\* excluded from scoring: process_tick persists no score for it.
C10_NoScoreBelowMinPeriods ==
    \A r \in scores :
        ~StatsNull(readings[r.metric][r.station_id], ScoredRow(r))

-----------------------------------------------------------------------------
(* model.IsoForestModel.score on a frame of feature rows.  z and z_robust  *)
(* are floats in tenths, a score is a float in thousandths, rounded down;  *)
(* a float is NaN or a number.  The isolation forest is a black box:       *)
(* score_samples gives each row a raw score, a negative number, here in    *)
(* tenths.                                                                 *)

\* rows of the largest frame scored in one call
MaxBatch == 2

NaN == [nan |-> TRUE, v |-> 0]
Num(x) == [nan |-> FALSE, v |-> x]
IsNaN(x) == x.nan

\* z of a latest row: at most sqrt(n - 1) in magnitude over n samples
ZValues == {NaN} \cup {Num(x) : x \in {-30, 0, 5, 30}}
\* z_robust of a latest row: (v - med) over a floored MAD, e.g. 0.6 mm of rain
\* after a dry window is 0.6 / 0.01 = 60.0
ZRobustValues == {NaN} \cup {Num(x) : x \in {0, 30, 600}}
\* compute_univariate_feats: z is null only where z_robust is
FeatureRows == {r \in [z : ZValues, z_robust : ZRobustValues] :
                   IsNaN(r.z) => IsNaN(r.z_robust)}
RawValues == {-6, -4}

Frames == UNION {[1..n -> FeatureRows] : n \in 1..MaxBatch}

\* model._z_eff_series: np.maximum(|z|, |z_robust|), NaN where either is NaN
_z_eff_series(row) ==
    IF IsNaN(row.z) \/ IsNaN(row.z_robust) THEN NaN
    ELSE Num(Max(Abs(row.z.v), Abs(row.z_robust.v)))

\* np.tanh(x / 3.0) in float64 for x >= 0: tabulated at 0, 0.5, 1, 2, 3, 4, 6
\* and 10, an argument in between taking the value of the next point; below
\* 57.2 the result is under 1.0 and from 57.2 on it is exactly 1.0
tanh_third(x) ==
    IF IsNaN(x) THEN NaN
    ELSE CASE x.v = 0 -> Num(0)
           [] x.v > 0 /\ x.v <= 5 -> Num(165)
           [] x.v > 5 /\ x.v <= 10 -> Num(321)
           [] x.v > 10 /\ x.v <= 20 -> Num(582)
           [] x.v > 20 /\ x.v <= 30 -> Num(761)
           [] x.v > 30 /\ x.v <= 40 -> Num(870)
           [] x.v > 40 /\ x.v <= 60 -> Num(964)
           [] x.v > 60 /\ x.v <= 100 -> Num(997)
           [] x.v > 100 /\ x.v < 572 -> Num(999)
           [] OTHER -> Num(1000)

\* score() line 53: the cold-start score of every row of the frame
cold_start_score(frame) ==
    [i \in 1..Len(frame) |-> tanh_third(_z_eff_series(frame[i]))]

SeqMin(s) == CHOOSE x \in {s[i] : i \in 1..Len(s)} : \A i \in 1..Len(s) : x <= s[i]
SeqMax(s) == CHOOSE x \in {s[i] : i \in 1..Len(s)} : \A i \in 1..Len(s) : x >= s[i]

\* score() lines 69-71: 1 - (raw - min) / (max - min + 1e-9)
forest_score(raw) ==
    [i \in 1..Len(raw) |->
        IF SeqMax(raw) = SeqMin(raw) THEN Num(1000)
        ELSE Num(1000 - ((raw[i] - SeqMin(raw)) * 1000) \div (SeqMax(raw) - SeqMin(raw)))]

\* IsoForestModel.score
IsoForestModel_score(fitted, frame, raw) ==
    IF ~fitted THEN cold_start_score(frame) ELSE forest_score(raw)

ProgramIdle ==
    /\ RulesIdle
    /\ baseline = BaselineNone
    /\ readings = EmptyStore
    /\ alerts = << >>
    /\ stations_tbl = NoStations
    /\ IndexFresh
    /\ TickIdle

InitScore ==
    /\ sc \in {[frame |-> f, fitted |-> b, raw |-> << >>, out |-> << >>, scored |-> FALSE] :
                  f \in Frames, b \in BOOLEAN}
    /\ ProgramIdle /\ ExtIdle
    /\ AngleIdle /\ ReadingsIdle /\ DaemonIdle

\* score() of a model that was never fit
ScoreCold ==
    /\ ~sc.scored
    /\ ~sc.fitted
    /\ sc' = [sc EXCEPT !.out = IsoForestModel_score(FALSE, sc.frame, << >>),
                        !.scored = TRUE]
    /\ UNCHANGED <<ruleVars, indexVars, tickVars, ang, rd, dm, extVars>>

\* score() of a fitted model whose forest gives the rows the scores raw
ScoreFitted(raw) ==
    /\ ~sc.scored
    /\ sc.fitted
    /\ Len(raw) = Len(sc.frame)
    /\ sc' = [sc EXCEPT !.raw = raw,
                        !.out = IsoForestModel_score(TRUE, sc.frame, raw),
                        !.scored = TRUE]
    /\ UNCHANGED <<ruleVars, indexVars, tickVars, ang, rd, dm, extVars>>

NextScore ==
    \/ ScoreCold
    \/ \E n \in 1..MaxBatch : \E raw \in [1..n -> RawValues] : ScoreFitted(raw)

SpecScore == InitScore /\ [][NextScore]_vars

\* a score that is a number of [0, 1]
InUnitInterval(x) == ~IsNaN(x) /\ 0 <= x.v /\ x.v <= 1000

\* C11: every score process_tick persists is a number in [0,1], on the
\* cold-start path and on the fitted path, for every latest feature row whether
\* or not its z-scores are null, and for every batch size, a single row included.
C11_ScoreInUnitInterval ==
    sc.scored => \A i \in 1..Len(sc.out) : InUnitInterval(sc.out[i])

\* one score is at least the other, both being numbers
ScoreGeq(x, y) == ~IsNaN(x) /\ ~IsNaN(y) /\ x.v >= y.v

\* C14: while the model was never fit, of two feature rows that differ only in
\* the magnitude of z the one with the larger |z| gets a score >= the other's,
\* and every cold-start score is in [0,1).
C14_ColdStartMonotonic ==
    (sc.scored /\ ~sc.fitted) =>
        /\ \A i, j \in 1..Len(sc.frame) :
              (/\ sc.frame[i].z_robust = sc.frame[j].z_robust
               /\ ~IsNaN(sc.frame[i].z) /\ ~IsNaN(sc.frame[j].z)
               /\ Abs(sc.frame[i].z.v) >= Abs(sc.frame[j].z.v))
                  => ScoreGeq(sc.out[i], sc.out[j])
        /\ \A i \in 1..Len(sc.out) : InUnitInterval(sc.out[i]) /\ sc.out[i].v < 1000

-----------------------------------------------------------------------------
(* features.angular_difference_deg and the wind-direction differences of   *)
(* features.py and rules.py, on whole degrees.                             *)

\* largest angle given to the difference
MaxAngle == 359

\* compute_univariate_feats line 104: the tick-to-tick delta of wind_direction
circular_delta(v, prev) == ((v - prev + 180) % 360) - 180

\* compute_univariate_feats line 100: the deviation from the rolling mean angle
circular_deviation(v, mu_angle) == ((v - mu_angle + 180) % 360) - 180

\* neighbor_gap line 159: the gap to the neighbors' circular mean
circular_gap(val, ref) == angular_difference_deg(val, ref)

InitAngle ==
    /\ ang \in {[a |-> x, b |-> y, computed |-> FALSE, d_ab |-> 0, d_ba |-> 0,
                 delta |-> 0, deviation |-> 0, gap |-> 0, rule_delta |-> 0] :
                   x \in 0..MaxAngle, y \in 0..MaxAngle}
    /\ ProgramIdle /\ ExtIdle
    /\ ScoreIdle /\ ReadingsIdle /\ DaemonIdle

\* the differences the system takes of the two angles a and b
ComputeDifferences ==
    /\ ~ang.computed
    /\ ang' = [ang EXCEPT !.computed = TRUE,
                          !.d_ab = angular_difference_deg(ang.a, ang.b),
                          !.d_ba = angular_difference_deg(ang.b, ang.a),
                          !.delta = circular_delta(ang.a, ang.b),
                          !.deviation = circular_deviation(ang.a, ang.b),
                          !.gap = circular_gap(ang.a, ang.b),
                          !.rule_delta = Deltas("wind_direction", <<ang.b, ang.a>>)[1]]
    /\ UNCHANGED <<ruleVars, indexVars, tickVars, sc, rd, dm, extVars>>

NextAngle == ComputeDifferences

SpecAngle == InitAngle /\ [][NextAngle]_vars

\* the arc from b to a, counter-clockwise, in [0, 360)
ArcFrom(b, a) == (a - b) % 360

\* the length of the shorter arc between a and b
ShortestArc(a, b) == Min(ArcFrom(b, a), ArcFrom(a, b))

\* d is the signed shortest-arc difference a - b, in (-180, 180]
IsShortestSigned(d, a, b) ==
    /\ -180 < d /\ d <= 180
    /\ d % 360 = ArcFrom(b, a)

\* C12: angular_difference_deg(a, b) lies in (-180, 180] for all a and b, and
\* every wind-direction difference the system uses (feature delta, deviation
\* from the rolling circular mean, neighbor gap, generic-rule delta) is that
\* shortest-arc difference, never a linear one (350 to 10 degrees is 20).
C12_AngularDifferenceRange ==
    ang.computed =>
        /\ IsShortestSigned(ang.d_ab, ang.a, ang.b)
        /\ IsShortestSigned(ang.delta, ang.a, ang.b)
        /\ IsShortestSigned(ang.deviation, ang.a, ang.b)
        /\ IsShortestSigned(ang.gap, ang.a, ang.b)
        /\ ang.rule_delta = ShortestArc(ang.a, ang.b)

\* C13: the signed angular difference is antisymmetric: where a and b are not
\* exactly 180 degrees apart, angular_difference_deg(a, b) is
\* -angular_difference_deg(b, a); at exactly 180 degrees the two results have
\* the same magnitude.
C13_AngularDifferenceAntisymmetric ==
    ang.computed =>
        IF ArcFrom(ang.b, ang.a) = 180
        THEN Abs(ang.d_ab) = Abs(ang.d_ba)
        ELSE ang.d_ab = -ang.d_ba

\* the differences of 350 and 10 degrees were taken: -20 one way, 20 the other
C13_Witness ==
    /\ ang.computed
    /\ ang.a = 350 /\ ang.b = 10
    /\ ang.d_ab = -20 /\ ang.d_ba = 20

-----------------------------------------------------------------------------
(* tests/test_rules.py: test_sustained_triggers builds a one-station       *)
(* temperature window and calls app.rules.apply_rules on it, with          *)
(* insert_alert patched to capture the emissions. rules.py defines no      *)
(* apply_rules (the import raises ImportError and nothing is captured);    *)
(* the rule it has for (window_df, metric, ts) is apply_simple_delta_rules.*)

\* rows of the test window: pd.date_range(periods=10)
TestRows == 10

\* the row of the test window: a reading with its feature columns
TestRow(ts, v, z, flag) ==
    [ts |-> ts, value |-> v, z |-> z, score |-> 900,
     neighbor_flag |-> flag, neighbor_gap |-> 12]

\* a window of n rows of station S1, one per minute: flat at v, or flat with
\* two closing steps of 1.0 degC
TestWindow(n, v, shape, z, flag) ==
    [EmptyStore EXCEPT !["temperature"]["S1"] =
        [i \in 1..n |->
            TestRow(i - 1,
                    IF shape = "step" /\ i > n - 2 THEN v + 10 * (i - (n - 2)) ELSE v,
                    z, flag)]]

\* the functions of rules.py a test can name
RulesUnderTest == {"apply_rules", "simple_delta"}

InitRulesTest ==
    /\ feed = "temperature"
    /\ rule \in RulesUnderTest
    /\ \E n \in 3..TestRows, v \in ValuesOf("temperature"), shape \in {"flat", "step"},
          z \in {0, 20, 40}, flag \in BOOLEAN :
            readings = TestWindow(n, v, shape, z, flag)
    /\ onset_k = rain_onset_min_intervals
    /\ baseline = BaselineNone
    /\ alerts = << >>
    /\ evals = 0
    /\ once = TRUE
    /\ prevLen = 0
    /\ ticks = 0
    /\ stations_tbl = NoStations
    /\ IndexFresh
    /\ TickIdle
    /\ AuxIdle

\* the test's call: out = rule(df, "temperature", df["ts"].iloc[-1])
TestCall ==
    /\ evals = 0
    /\ alerts' = Evaluate(readings)
    /\ prevLen' = Len(alerts)
    /\ evals' = 1
    /\ UNCHANGED <<feed, rule, readings, once, onset_k, baseline, ticks>>
    /\ UNCHANGED <<indexVars, tickVars, auxVars, extVars>>

NextRulesTest == TestCall

SpecRulesTest == InitRulesTest /\ [][NextRulesTest]_vars

\* the window of test_sustained_triggers: z = 4 on every row, anomalous neighbors
SustainedHighZ ==
    /\ Len(Series) = TestRows
    /\ \A i \in 1..Len(Series) :
        Series[i].z = 40 /\ Series[i].score = 900 /\ Series[i].neighbor_flag

\* C15: the rules test's property: called on a one-station window with a
\* sustained high z-score (z = 4 on every row, score 0.9) and anomalous
\* neighbors, the rule emits at least one alert through insert_alert, and the
\* first alert emitted has type WEATHER.
C15_SustainedTriggersWeather ==
    (evals = 1 /\ SustainedHighZ) =>
        /\ Len(alerts) >= 1
        /\ alerts[1].type = "WEATHER"

-----------------------------------------------------------------------------
(* Claims about a tick on an empty store, checked under SpecTick *)

\* get_latest_readings returns no row for any metric
NoReadings == \A m \in Metrics : WindowEmpty(readings[m])

\* C16: a tick that finds no readings for any metric is a no-op: process_tick
\* returns without raising, writes no score, emits no alert, and leaves every
\* model's fitted state unchanged.
C16_NoReadingsTickNoOp ==
    [][(pc = "tick" /\ NoReadings) =>
          /\ pc' = "poll"
          /\ scores' = scores
          /\ alerts' = alerts
          /\ _models' = _models]_vars

\* a tick has run and returned while the store held no reading
C16_Witness ==
    /\ polls >= 1
    /\ pc = "poll"
    /\ NoReadings

-----------------------------------------------------------------------------
(* daemon.run_daemon (main.run_daemon is the same loop): the locals tick   *)
(* and backoff, the module flag _STOP and the statement the loop is at.    *)
(* What poll_once, _hydrate and process_tick do to the store is the matter *)
(* of SpecTick and SpecIndex; here each of them returns or raises.         *)

\* iterations of the loop a run takes
MaxIter == 12

poll_interval_seconds == 60

\* the cap of the backoff sleep, seconds
backoff_cap == 60

\* what the three steps of an iteration raise: a failed request, a locked or
\* broken database, a malformed payload
ErrorKinds == {"RequestException", "OperationalError", "KeyError"}

\* a handler for failed requests only
except_RequestException(e) == e = "RequestException"

\* except Exception: every error the steps raise derives from Exception
except_Exception(e) == e \in ErrorKinds

\* no rebuild of the index has completed
NotBuilt == 0 - 1

\* init_db() and Engine() have run; the next statement is the initial
\* station_index._hydrate(). built_iter is the iteration in which the last
\* completed rebuild ran (0: before the loop), half_built says that a
\* rebuild raised part-way, asked that the running tick has issued its
\* neighbor queries, fails how many iterations have failed in a row.
InitDaemon ==
    /\ dm = [pc |-> "initial_hydrate", tick |-> 0, backoff |-> 1, _STOP |-> FALSE,
             iter |-> 0, slept |-> 0, fails |-> 0,
             built_iter |-> NotBuilt, half_built |-> FALSE, asked |-> FALSE]
    /\ ProgramIdle /\ ExtIdle
    /\ ScoreIdle /\ AngleIdle /\ ReadingsIdle

DaemonFrame == UNCHANGED <<ruleVars, indexVars, tickVars, sc, ang, rd, extVars>>

\* _handle_signal: SIGINT or SIGTERM arrives
HandleSignal ==
    /\ dm.pc \notin {"stopped", "crashed", "not_started"}
    /\ ~dm._STOP
    /\ dm' = [dm EXCEPT !._STOP = TRUE]
    /\ DaemonFrame

\* while not _STOP
WhileTest ==
    /\ dm.pc = "while"
    /\ dm._STOP \/ dm.iter < MaxIter
    /\ dm' = IF dm._STOP THEN [dm EXCEPT !.pc = "stopped"]
             ELSE [dm EXCEPT !.pc = "poll_once", !.iter = @ + 1]
    /\ DaemonFrame

\* where an error of kind e raised inside the try block takes the loop
Raise(e) == IF except_Exception(e) THEN "except" ELSE "crashed"

\* mutation of AfterStep: the tick is processed before the refresh
AfterStepTickFirst(step) ==
    CASE step = "poll_once" -> "process_tick"
      [] step = "process_tick" -> IF dm.tick % 10 = 0 THEN "_hydrate" ELSE "ok"
      [] step = "_hydrate" -> "ok"

\* the statement after step
AfterStep(step) ==
    CASE step = "poll_once" -> IF dm.tick % 10 = 0 THEN "_hydrate" ELSE "process_tick"
      [] step = "_hydrate" -> "process_tick"
      [] step = "process_tick" -> "ok"

\* poll_once(), station_index._hydrate() or eng.process_tick() returns
StepReturns(step) ==
    /\ dm.pc = step
    /\ dm' = [dm EXCEPT !.pc = AfterStep(step),
                        !.built_iter = IF step = "_hydrate" THEN dm.iter ELSE @,
                        !.half_built = IF step = "_hydrate" THEN FALSE ELSE @,
                        !.asked = FALSE]
    /\ DaemonFrame

\* poll_once(), station_index._hydrate() or eng.process_tick() raises e
StepRaises(step, e) ==
    /\ dm.pc = step
    /\ dm' = [dm EXCEPT !.pc = Raise(e),
                        !.half_built = IF step = "_hydrate" THEN TRUE ELSE @,
                        !.asked = FALSE]
    /\ DaemonFrame

\* station_index._hydrate() before the loop returns
InitialHydrate ==
    /\ dm.pc = "initial_hydrate"
    /\ dm' = [dm EXCEPT !.pc = "while", !.built_iter = 0, !.half_built = FALSE]
    /\ DaemonFrame

\* station_index._hydrate() before the loop raises: no handler is around
\* it, run_daemon ends before its first iteration
InitialHydrateRaises ==
    /\ dm.pc = "initial_hydrate"
    /\ dm' = [dm EXCEPT !.pc = "not_started", !.half_built = TRUE]
    /\ DaemonFrame

\* process_tick builds neighbors_map: station_index.neighbors(sid, k) for
\* the stations of the tick
NeighborQuery ==
    /\ dm.pc = "process_tick"
    /\ ~dm.asked
    /\ dm' = [dm EXCEPT !.asked = TRUE]
    /\ DaemonFrame

\* the end of the try block: tick += 1; backoff = 1; sleep(poll_interval_seconds)
IterationOk ==
    /\ dm.pc = "ok"
    /\ dm' = [dm EXCEPT !.pc = "while", !.tick = @ + 1, !.backoff = 1,
                        !.slept = poll_interval_seconds, !.fails = 0]
    /\ DaemonFrame

\* the handler doubling the backoff without the cap
IterationFailedUncapped ==
    /\ dm.pc = "except"
    /\ dm' = [dm EXCEPT !.pc = "while",
                        !.slept = Min(backoff_cap, dm.backoff),
                        !.backoff = dm.backoff * 2,
                        !.fails = @ + 1]
    /\ DaemonFrame

\* the handler: sleep(min(60, backoff)); backoff = min(60, backoff * 2)
IterationFailed ==
    /\ dm.pc = "except"
    /\ dm' = [dm EXCEPT !.pc = "while",
                        !.slept = Min(backoff_cap, dm.backoff),
                        !.backoff = Min(backoff_cap, dm.backoff * 2),
                        !.fails = @ + 1]
    /\ DaemonFrame

DaemonSteps == {"poll_once", "_hydrate", "process_tick"}

NextDaemon ==
    \/ InitialHydrate
    \/ InitialHydrateRaises
    \/ NeighborQuery
    \/ HandleSignal
    \/ WhileTest
    \/ \E step \in DaemonSteps : StepReturns(step)
    \/ \E step \in DaemonSteps, e \in ErrorKinds : StepRaises(step, e)
    \/ IterationOk
    \/ IterationFailed

SpecDaemon == InitDaemon /\ [][NextDaemon]_vars

\* C17: a tick failure is never fatal: in run_daemon, an exception raised in one
\* iteration (by ingestion, the index rebuild or process_tick) is caught, and
\* unless a stop was requested another iteration always follows after the
\* backoff sleep.
C17_TickFailureNeverFatal ==
    [][/\ dm'.pc # "crashed"
       /\ dm.pc = "except" => dm'.pc \in {"except", "while"}
       /\ (dm.pc = "while" /\ dm.slept # 0 /\ ~dm._STOP /\ ~dm'._STOP)
             => dm'.pc = "poll_once"]_vars

\* an iteration has begun after seven failed ones, the last sleep at the cap
C17_Witness ==
    /\ dm.pc = "poll_once"
    /\ dm.backoff = backoff_cap
    /\ dm.slept = backoff_cap
    /\ ~dm._STOP

\* C28: a tick issues its neighbor queries only after the initial rebuild
\* and, in an iteration that has a rebuild scheduled (tick % 10 = 0), only
\* after that iteration's rebuild has completed; no query runs while a
\* rebuild is running or after one that stopped part-way.
C28_RebuildThenQuery ==
    (dm.pc = "process_tick" /\ dm.asked) =>
        /\ dm.built_iter # NotBuilt
        /\ ~dm.half_built
        /\ dm.tick % 10 = 0 => dm.built_iter = dm.iter

\* the tick of the second scheduled rebuild queries the index, in an
\* iteration that follows a failed one
C28_Witness ==
    /\ dm.pc = "process_tick" /\ dm.asked
    /\ dm.tick > 0 /\ dm.tick % 10 = 0
    /\ dm.iter > dm.tick + 1
    /\ dm.built_iter = dm.iter

-----------------------------------------------------------------------------
(* store.write_readings on the readings table: the table is the set of its *)
(* rows, and a batch is written row by row, in order, by INSERT OR REPLACE.*)

\* rows of one batch
MaxRows == 2

\* the primary keys that occur: they differ in ts, in station_id or in metric
ReadingKeys ==
    {[ts |-> 0, station_id |-> "S1", metric |-> "temperature"],
     [ts |-> cadence_min, station_id |-> "S1", metric |-> "temperature"],
     [ts |-> 0, station_id |-> "S2", metric |-> "temperature"],
     [ts |-> 0, station_id |-> "S1", metric |-> "rainfall"]}

ReadingValues == {280, 320}

ReadingRows ==
    {[ts |-> k.ts, station_id |-> k.station_id, metric |-> k.metric, value |-> v] :
        k \in ReadingKeys, v \in ReadingValues}

ReadingBatches == UNION {[1..n -> ReadingRows] : n \in 0..MaxRows}

\* PRIMARY KEY (ts, station_id, metric)
KeyOf(r) == [ts |-> r.ts, station_id |-> r.station_id, metric |-> r.metric]

\* INSERT OR IGNORE: a row whose key exists is dropped
insert_or_ignore(tbl, row) ==
    IF \E r \in tbl : KeyOf(r) = KeyOf(row) THEN tbl ELSE tbl \cup {row}

\* INSERT OR REPLACE: the rows of the same key are deleted, the row is inserted
insert_or_replace(tbl, row) ==
    {r \in tbl : KeyOf(r) # KeyOf(row)} \cup {row}

\* executemany over the rows of the batch, in order
RECURSIVE write_readings(_, _)
write_readings(tbl, rows) ==
    IF rows = << >> THEN tbl
    ELSE write_readings(insert_or_replace(tbl, Head(rows)), Tail(rows))

\* the table after the earlier ingestion of one batch into the empty table
InitReadings ==
    /\ \E rows \in ReadingBatches :
          rd = [tbl |-> write_readings({}, rows), before |-> {}, batch |-> << >>,
                once |-> {}, again |-> FALSE, writes |-> 0]
    /\ ProgramIdle /\ ExtIdle
    /\ ScoreIdle /\ AngleIdle /\ DaemonIdle

\* poll_once or backfill_day writes a batch
WriteBatch(rows) ==
    /\ rd.writes = 0
    /\ rd' = [tbl |-> write_readings(rd.tbl, rows), before |-> rd.tbl, batch |-> rows,
              once |-> write_readings(rd.tbl, rows), again |-> FALSE,
              writes |-> rd.writes + 1]
    /\ UNCHANGED <<ruleVars, indexVars, tickVars, sc, ang, dm, extVars>>

\* the same batch is ingested again
WriteAgain ==
    /\ rd.writes >= 1
    /\ ~rd.again
    /\ rd' = [rd EXCEPT !.tbl = write_readings(rd.tbl, rd.batch), !.again = TRUE]
    /\ UNCHANGED <<ruleVars, indexVars, tickVars, sc, ang, dm, extVars>>

NextReadings ==
    \/ \E rows \in ReadingBatches : WriteBatch(rows)
    \/ WriteAgain

SpecReadings == InitReadings /\ [][NextReadings]_vars

\* the rows of the table under one key
RowsOfKey(tbl, k) == {r \in tbl : KeyOf(r) = k}

\* the value the batch wrote last under the key of its i-th row
LastWritten(rows, i) ==
    LET same == {j \in 1..Len(rows) : KeyOf(rows[j]) = KeyOf(rows[i])}
    IN rows[CHOOSE j \in same : \A q \in same : q <= j].value

\* C18: readings are keyed by (ts, station_id, metric) and re-ingestion is
\* idempotent: writing the same batch twice leaves the store in the same state
\* as writing it once, and writing a row whose key already exists leaves
\* exactly one row for that key, holding the last written value.
C18_ReadingsKeyedIdempotent ==
    /\ \A k \in ReadingKeys : Cardinality(RowsOfKey(rd.tbl, k)) <= 1
    /\ rd.again => rd.tbl = rd.once
    /\ \A i \in 1..Len(rd.batch) :
          RowsOfKey(rd.tbl, KeyOf(rd.batch[i])) =
              {[ts |-> rd.batch[i].ts, station_id |-> rd.batch[i].station_id,
                metric |-> rd.batch[i].metric,
                value |-> LastWritten(rd.batch, i)]}

\* a batch holding one key twice, with two values, was written twice into a
\* table that held a row of that key and a row of another key
C18_Witness ==
    /\ rd.again
    /\ Len(rd.batch) = 2
    /\ KeyOf(rd.batch[1]) = KeyOf(rd.batch[2])
    /\ rd.batch[1].value # rd.batch[2].value
    /\ \E r \in rd.before : KeyOf(r) = KeyOf(rd.batch[1])
    /\ Cardinality(rd.tbl) = 2

-----------------------------------------------------------------------------
(* Claims about the alert log, checked under SpecTick *)

\* the log s is the beginning of the log t
IsPrefix(s, t) == Len(s) <= Len(t) /\ SubSeq(t, 1, Len(s)) = s

\* C19: the alert log is append-only under tick processing: no rule evaluation
\* in process_tick modifies or removes an existing alert, each emission adds
\* exactly one row, and alert ids strictly increase in emission order.
C19_AlertLogAppendOnly ==
    [][/\ IsPrefix(alerts, alerts')
       /\ \A i, j \in 1..Len(alerts') : i < j => alerts'[i].id < alerts'[j].id]_vars

\* two ticks have emitted alerts of one station, metric and type
C19_Witness ==
    \E i, j \in 1..Len(alerts) :
        /\ i < j
        /\ SameKey(alerts[i], alerts[j])
        /\ alerts[i].ts < alerts[j].ts

-----------------------------------------------------------------------------
(* Claims about RAIN_STOP, checked under the rule evaluation runs of the   *)
(* rain-event rules                                                        *)

\* the runs of RuleRuns that feed rainfall to the rain-event rules
RainRuns == {run \in RuleRuns : run.rule = "rain_event"}

InitRain ==
    /\ InitRules
    /\ \E run \in RainRuns :
        /\ feed = run.feed
        /\ rule = run.rule

SpecRain == InitRain /\ [][NextRules]_vars

\* the position in the series of S1 of the row stamped ts
RowAt(ts) == CHOOSE n \in 1..Len(Series) : Series[n].ts = ts

\* the rows up to n end in q calm ticks, and one of the prev_k ticks just
\* before those is wet
QuietAfterWet(n) ==
    LET q == rain_stop_quiet_intervals
        prev_k == rain_stop_prev_window
    IN /\ n >= q
       /\ \A j \in (n - q + 1)..n : SeriesValues[j] <= rain_calm_mm
       /\ \E j \in (n - q - prev_k + 1)..(n - q) :
              j >= 1 /\ SeriesValues[j] > rain_calm_mm

\* C20: RAIN_STOP is emitted for a station only if its last q ticks are all at
\* or below the calm threshold and at least one of the prev_k ticks immediately
\* preceding that quiet streak is above the calm threshold; a station none of
\* whose ticks in the window is above the calm threshold never gets RAIN_STOP.
C20_RainStopOnlyAfterWet ==
    /\ \A i \in OfType("RAIN_STOP") :
          /\ \E n \in 1..Len(Series) : Series[n].ts = alerts[i].ts
          /\ QuietAfterWet(RowAt(alerts[i].ts))
    /\ (\A j \in 1..Len(Series) : SeriesValues[j] <= rain_calm_mm)
          => OfType("RAIN_STOP") = {}

\* RAIN_STOP was emitted on the tick that completed the quiet streak
C20_Witness ==
    /\ OfType("RAIN_STOP") # {}
    /\ "RAIN_STOP" \in EmittedTypes
    /\ QuietAfterWet(Len(Series))

-----------------------------------------------------------------------------
(* Rule evaluation runs of the rain-event rules under heavy rain: the      *)
(* station reports dry, 1.0 mm or 2.5 mm ticks.                            *)

HeavyRainValues == {0, 100, 250}

NextHeavyRain ==
    \/ \E v \in HeavyRainValues : Tick(v)
    \/ ReEvaluate

SpecHeavyRain == InitRain /\ [][NextHeavyRain]_vars

\* the intense condition on the rows of S1 up to row n
IntenseAt(n) ==
    \/ SeriesValues[n] >= rain_intense_tick_mm
    \/ SumSeq(SubSeq(SeriesValues, Max(1, n - rain_trend_window + 1), n))
          >= rain_intense_S15_mm

\* C21: RAIN_INTENSE is edge-detected: over consecutive ticks on which a
\* station's intense condition (current tick >= intense tick threshold, or
\* recent-window sum >= intense sum threshold) stays true, RAIN_INTENSE is
\* emitted only at the tick where the condition became true, however long it
\* stays true: between two RAIN_INTENSE alerts the condition has been false.
C21_RainIntenseEdgeDetected ==
    \A i, j \in OfType("RAIN_INTENSE") :
        i < j =>
            \E n \in RowAt(alerts[i].ts)..RowAt(alerts[j].ts) : ~IntenseAt(n)

-----------------------------------------------------------------------------
(* Claims about RAIN_ONSET, checked under the runs of the rain-event rules *)

\* the sum of the rows a..b of the series of S1 (the rows that exist)
SumRows(a, b) == SumSeq(SubSeq(SeriesValues, Max(1, a), b))

\* the wet half of the onset condition on the rows up to n: the recent W-tick
\* sum reaches the onset sum threshold, or one of the last onset_k ticks
\* reaches the per-tick threshold
OnsetWetAt(n) ==
    \/ SumRows(n - rain_trend_window + 1, n) >= rain_onset_S15_mm
    \/ \E j \in Max(1, n - Min(onset_k, rain_trend_window) + 1)..n :
          SeriesValues[j] >= rain_onset_tick_mm

\* the W-tick window that precedes the recent window of row n is calm
PrecedingCalmAt(n) ==
    SumRows(n - 2 * rain_trend_window + 1, n - rain_trend_window) <= rain_calm_mm

\* a calm W-tick window lies between the rows a and b
CalmBetween(a, b) ==
    \E m \in a..b :
        /\ m - rain_trend_window + 1 >= a
        /\ SumRows(m - rain_trend_window + 1, m) <= rain_calm_mm

\* C22: RAIN_ONSET fires only on the rising edge: it is emitted at a tick only
\* if (the recent W-tick sum >= the onset sum threshold, or one of the last
\* onset_k ticks >= the per-tick onset threshold) and the sum of the W-tick
\* window preceding the recent window is <= the calm threshold, and it is
\* emitted once per dry-to-wet transition, not again on later ticks of the
\* same rain episode.
C22_RainOnsetRisingEdge ==
    /\ \A i \in OfType("RAIN_ONSET") :
          /\ OnsetWetAt(RowAt(alerts[i].ts))
          /\ PrecedingCalmAt(RowAt(alerts[i].ts))
    /\ \A i, j \in OfType("RAIN_ONSET") :
          i < j => CalmBetween(RowAt(alerts[i].ts), RowAt(alerts[j].ts) - 1)

-----------------------------------------------------------------------------
(* model.MultiIsoForest: the pool of per-metric IsoForestModel objects     *)
(* under fit_if_needed and score calls, with the clock time.time() reads.  *)
(* Times are minutes; the clock moves in thirds of the refit interval.     *)

\* clock steps of a run
MaxClockSteps == 6

\* refit_every_sec = 3600
refit_every_min == 60

ClockStep == refit_every_min \div 3

PoolMetrics == {"temperature", "rainfall"}

\* len(feats) of a call: nothing, one row short of min_rows, min_rows
FeatRows == {0, min_rows - 1, min_rows}

\* IsoForestModel.__init__
\* fits counts the calls of self.model.fit
NewModel == [present |-> TRUE, _fitted |-> FALSE, _last_fit_ts |-> 0, fits |-> 0]

NoModel == [present |-> FALSE, _fitted |-> FALSE, _last_fit_ts |-> 0, fits |-> 0]

\* one model shared by all metrics
SharedSlot(metric) == "temperature"

\* the key of a metric's model in MultiIsoForest._models
Slot(metric) == metric

\* MultiIsoForest._get: the model of the metric, created on first use
pool_get(models, metric) ==
    IF models[Slot(metric)].present THEN models ELSE [models EXCEPT ![Slot(metric)] = NewModel]

\* a refit on every call
refit_always(model, t_now) == TRUE

\* fit_if_needed line 43: never fit, or the refit interval has elapsed
refit_due(model, t_now) ==
    \/ ~model._fitted
    \/ t_now - model._last_fit_ts >= refit_every_min

\* a call with too few rows resets the model
fit_or_reset(model, rows, t_now) ==
    IF rows < min_rows THEN NewModel
    ELSE [model EXCEPT !._fitted = TRUE, !._last_fit_ts = t_now, !.fits = @ + 1]

\* IsoForestModel.fit_if_needed
model_fit_if_needed(model, rows, t_now) ==
    IF rows < min_rows THEN model
    ELSE IF refit_due(model, t_now)
         THEN [model EXCEPT !._fitted = TRUE, !._last_fit_ts = t_now, !.fits = @ + 1]
         ELSE model

\* IsoForestModel.score: the path taken
score_path(model) == IF model._fitted THEN "forest" ELSE "cold_start"

NoCall == [op |-> "none", metric |-> "temperature", rows |-> 0, path |-> "none"]

InitPool ==
    /\ ml = [clock |-> 0,
             models |-> [m \in PoolMetrics |-> NoModel],
             trainings |-> [m \in PoolMetrics |-> << >>],
             call |-> NoCall]
    /\ ProgramIdle /\ ExtIdleBut("ml")
    /\ AuxOnlyIdle

PoolFrame == UNCHANGED <<ruleVars, indexVars, tickVars, auxVars, bl, cc, eq, hp, moreVars>>

\* time passes
AdvanceClock ==
    /\ ml.clock < MaxClockSteps * ClockStep
    /\ ml' = [ml EXCEPT !.clock = @ + ClockStep]
    /\ PoolFrame

\* MultiIsoForest.fit_if_needed(metric, feats) with len(feats) = rows
PoolFit(metric, rows) ==
    LET got == pool_get(ml.models, metric)
        old == got[Slot(metric)]
        new == model_fit_if_needed(old, rows, ml.clock)
        trained == new.fits > old.fits
    IN /\ ml' = [ml EXCEPT
                   !.models = [got EXCEPT ![Slot(metric)] = new],
                   !.trainings[metric] = IF trained THEN Append(@, ml.clock) ELSE @,
                   !.call = [op |-> "fit_if_needed", metric |-> metric,
                             rows |-> rows, path |-> "none"]]
       /\ PoolFrame

\* MultiIsoForest.score(metric, feats)
PoolScore(metric) ==
    LET got == pool_get(ml.models, metric)
    IN /\ ml' = [ml EXCEPT
                   !.models = got,
                   !.call = [op |-> "score", metric |-> metric, rows |-> 0,
                             path |-> score_path(got[Slot(metric)])]]
       /\ PoolFrame

NextPool ==
    \/ AdvanceClock
    \/ \E metric \in PoolMetrics, rows \in FeatRows : PoolFit(metric, rows)
    \/ \E metric \in PoolMetrics : PoolScore(metric)

SpecPool == InitPool /\ [][NextPool]_vars

-----------------------------------------------------------------------------
(* Claims about the model pool, checked under SpecPool *)

\* the step trained the model of metric m
Trained(m) == Len(ml'.trainings[m]) > Len(ml.trainings[m])

\* C23: fit_if_needed trains a metric's model only when the input has at least
\* min_rows rows and (the model was never fit, or at least the refit interval
\* has elapsed since its last fit); in every other case the model's fitted
\* flag and last-fit time are unchanged, so two trainings of one metric by
\* fit_if_needed are at least one refit interval apart.
C23_FitOnlyWhenDue ==
    [][\A m \in PoolMetrics :
          /\ Trained(m) =>
                /\ ml'.call.op = "fit_if_needed"
                /\ ml'.call.metric = m
                /\ ml'.call.rows >= min_rows
                /\ \/ ~ml.models[m]._fitted
                   \/ ml.clock - ml.models[m]._last_fit_ts >= refit_every_min
          /\ ~Trained(m) =>
                /\ ml'.models[m]._fitted = ml.models[m]._fitted
                /\ ml'.models[m]._last_fit_ts = ml.models[m]._last_fit_ts
          /\ \A a, b \in 1..Len(ml'.trainings[m]) :
                a < b => ml'.trainings[m][b] - ml'.trainings[m][a] >= refit_every_min]_vars

\* a model trained twice was given enough rows again before the interval had
\* elapsed, and was not trained
C23_Witness ==
    /\ ml.call.op = "fit_if_needed"
    /\ ml.call.rows >= min_rows
    /\ Len(ml.trainings[ml.call.metric]) = 2
    /\ ml.clock > ml.models[ml.call.metric]._last_fit_ts
    /\ ml.clock - ml.models[ml.call.metric]._last_fit_ts < refit_every_min

\* C24: for each metric, score returns the deterministic cold-start fallback
\* exactly while that metric's model has never been fit; once a fit has
\* succeeded the model never returns to the unfitted state over any later
\* sequence of fit_if_needed and score calls, and score then uses the fitted
\* model.
C24_ColdStartUntilFirstFit ==
    [][\A m \in PoolMetrics :
          /\ ml.models[m]._fitted => ml'.models[m]._fitted
          /\ (ml'.call.op = "score" /\ ml'.call.metric = m) =>
                /\ ml'.call.path = "cold_start" <=> ml'.trainings[m] = << >>
                /\ ml'.call.path = "forest" <=> ml'.trainings[m] # << >>]_vars

\* a fitted model was given too few rows and later scored on the forest path
C24_Witness ==
    /\ ml.call.op = "score"
    /\ ml.call.path = "forest"
    /\ ml.clock > ml.models[ml.call.metric]._last_fit_ts
    /\ \E m \in PoolMetrics : ml.models[m].present /\ ~ml.models[m]._fitted

\* C25: each metric owns an independent model: the pool creates one model per
\* metric on first use and reuses it afterwards, and fitting or scoring metric
\* A never changes the fitted flag, last-fit time or scores of the model of a
\* different metric B.
C25_IndependentModels ==
    [][\A m \in PoolMetrics :
          /\ m # ml'.call.metric =>
                /\ ml'.models[m] = ml.models[m]
                /\ ml'.trainings[m] = ml.trainings[m]
          /\ (ml'.call.op # "none" /\ m = ml'.call.metric) => ml'.models[m].present
          /\ ml.models[m].present =>
                /\ ml'.models[m].present
                /\ ml'.models[m].fits >= ml.models[m].fits]_vars

\* one metric scored on its forest, then the other on the cold start
C25_Witness ==
    /\ ml.call.op = "score"
    /\ ml.call.path = "cold_start"
    /\ \E m \in PoolMetrics :
          /\ m # ml.call.metric
          /\ ml.models[m]._fitted
          /\ ml.models[m].fits = 2


\* ---------------------------------------------------------------------
\* rules.ensure_temp_baseline: the module-level cache of the temperature
\* time-of-day baseline (_TEMP_BASELINE_DF, _TEMP_BASELINE_BUILT_AT)
\* ---------------------------------------------------------------------

\* most rebuilds followed in one run
MaxBuilds == 3

\* _TEMP_REBUILD_EVERY_MIN = 180
_TEMP_REBUILD_EVERY_MIN == 180

BaselineStep == _TEMP_REBUILD_EVERY_MIN \div 3

\* _TEMP_BASELINE_BUILT_AT = None
NeverBuilt == 0 - 1

\* _build_temp_baseline(): None when the query finds no temperature row
\* of the lookback period, a frame otherwise
_build_temp_baseline(has_rows) == IF has_rows THEN "frame" ELSE "None"

\* the early return of ensure_temp_baseline: a cache is present, its
\* build time is known and it is younger than the rebuild interval
baseline_fresh(cache, force, t_now) ==
    /\ ~force
    /\ cache.df # "None"
    /\ cache.built_at # NeverBuilt
    /\ t_now - cache.built_at < _TEMP_REBUILD_EVERY_MIN

\* ensure_temp_baseline(force): the cache it leaves, whether it rebuilt,
\* and its return value
ensure_temp_baseline_call(cache, force, has_rows, t_now) ==
    IF baseline_fresh(cache, force, t_now)
    THEN [cache |-> cache, rebuilt |-> FALSE, ret |-> TRUE]
    ELSE LET base == _build_temp_baseline(has_rows)
         IN IF base = "None"
            THEN [cache |-> [df |-> "None", built_at |-> NeverBuilt],
                  rebuilt |-> TRUE, ret |-> FALSE]
            ELSE [cache |-> [df |-> base, built_at |-> t_now],
                  rebuilt |-> TRUE, ret |-> TRUE]

InitBaseline ==
    /\ bl = [clock |-> 0,
             cache |-> [df |-> "None", built_at |-> NeverBuilt],
             has_rows |-> FALSE,
             builds |-> << >>,
             forced |-> FALSE,
             ret |-> FALSE]
    /\ ProgramIdle /\ ExtIdleBut("bl")
    /\ AuxOnlyIdle

BaselineFrame == UNCHANGED <<ruleVars, indexVars, tickVars, auxVars, ml, cc, eq, hp, moreVars>>

\* time passes
BaselineClock ==
    /\ bl.clock < MaxClockSteps * BaselineStep
    /\ bl' = [bl EXCEPT !.clock = @ + BaselineStep]
    /\ BaselineFrame

\* the collector stores temperature readings, or the lookback period
\* moves past the last of them
TemperatureRows(b) ==
    /\ bl.has_rows # b
    /\ bl' = [bl EXCEPT !.has_rows = b]
    /\ BaselineFrame

\* one call of ensure_temp_baseline(force)
EnsureBaseline(force) ==
    /\ Len(bl.builds) < MaxBuilds
    /\ LET r == ensure_temp_baseline_call(bl.cache, force, bl.has_rows, bl.clock)
       IN bl' = [bl EXCEPT !.cache = r.cache,
                           !.builds = IF r.rebuilt
                                       THEN Append(@, [at |-> bl.clock, found |-> r.ret])
                                       ELSE @,
                           !.forced = @ \/ force,
                           !.ret = r.ret]
    /\ BaselineFrame

NextBaseline ==
    \/ BaselineClock
    \/ \E b \in BOOLEAN : TemperatureRows(b)
    \/ \E force \in BOOLEAN : EnsureBaseline(force)

SpecBaseline == InitBaseline /\ [][NextBaseline]_vars

\* C26: as long as no call passed force, any two rebuilds of the
\* temperature baseline are at least the rebuild interval (180 minutes)
\* apart, whether they found data or not.
C26_RebuildAtMostOncePerInterval ==
    ~bl.forced =>
        \A i, j \in 1..Len(bl.builds) :
            i < j => bl.builds[j].at - bl.builds[i].at >= _TEMP_REBUILD_EVERY_MIN


\* ---------------------------------------------------------------------
\* Two evaluations of the RAIN_INTENSE branch of apply_rain_event_rules
\* for one station on one alerts table: the cooldown lookup
\* (_cooldown_ok, its own connection) and insert_alert (its own
\* connection) are separate steps of each evaluation.
\* ---------------------------------------------------------------------

\* evaluations started in one run
MaxOverlapEvals == 3

Evaluators == {1, 2}

\* the evaluated station
OverlapStation == "S1"

\* timestamps handed to an evaluation: two inside one cooldown, one a
\* full cooldown after the first
OverlapTimes == {0, cadence_min, rain_cooldown_minutes}

EvalIdle == [pc |-> "idle", ts |-> 0, ok |-> FALSE, seen |-> 0]

\* mutation of emit_after_lookup: the insert tests the cooldown again on
\* the log as it is when the insert runs
emit_if_still_ok(log, ok, ts, sid, type) ==
    IF ok /\ _cooldown_ok(log, sid, "rainfall", type, ts, rain_cooldown_minutes)
    THEN insert_alert(log, ts, sid, "rainfall", type)
    ELSE log

\* the body of 'if <level> and _cooldown_ok(...): insert_alert(...)' once
\* the lookup has returned ok
emit_after_lookup(log, ok, ts, sid, type) ==
    IF ok THEN insert_alert(log, ts, sid, "rainfall", type) ELSE log

InitOverlap ==
    /\ cc = [log |-> << >>,
             ev |-> [e \in Evaluators |-> EvalIdle],
             started |-> 0]
    /\ ProgramIdle /\ ExtIdleBut("cc")
    /\ AuxOnlyIdle

OverlapFrame == UNCHANGED <<ruleVars, indexVars, tickVars, auxVars, ml, bl, eq, hp, moreVars>>

\* an evaluation reaches the RAIN_INTENSE test at ts; when the level test
\* fails the 'and' never calls _cooldown_ok
EvalBegin(e, ts, intense) ==
    /\ cc.ev[e].pc \in {"idle", "done"}
    /\ cc.started < MaxOverlapEvals
    /\ cc' = [cc EXCEPT !.started = @ + 1,
                        !.ev[e] = [pc |-> IF intense THEN "lookup" ELSE "done",
                                   ts |-> ts, ok |-> FALSE, seen |-> Len(cc.log)]]
    /\ OverlapFrame

\* _cooldown_ok(sid, "rainfall", "RAIN_INTENSE", ts, cd_min)
EvalLookup(e) ==
    /\ cc.ev[e].pc = "lookup"
    /\ cc' = [cc EXCEPT !.ev[e].pc = "insert",
                        !.ev[e].seen = Len(cc.log),
                        !.ev[e].ok = _cooldown_ok(cc.log, OverlapStation, "rainfall",
                                                  "RAIN_INTENSE", cc.ev[e].ts,
                                                  rain_cooldown_minutes)]
    /\ OverlapFrame

\* insert_alert(...) when the lookup allowed it
EvalInsert(e) ==
    /\ cc.ev[e].pc = "insert"
    /\ cc' = [cc EXCEPT !.ev[e].pc = "done",
                        !.log = emit_after_lookup(@, cc.ev[e].ok, cc.ev[e].ts,
                                                  OverlapStation, "RAIN_INTENSE")]
    /\ OverlapFrame

NextOverlap ==
    \/ \E e \in Evaluators, ts \in OverlapTimes, intense \in BOOLEAN :
           EvalBegin(e, ts, intense)
    \/ \E e \in Evaluators : EvalLookup(e)
    \/ \E e \in Evaluators : EvalInsert(e)

SpecOverlap == InitOverlap /\ [][NextOverlap]_vars

AbsDiff(a, b) == IF a >= b THEN a - b ELSE b - a

\* two RAIN_INTENSE alerts of the station, logged after position n, less
\* than the cooldown apart
TwoInsideCooldown(log, n) ==
    \E i, j \in (n + 1)..Len(log) :
        /\ i < j
        /\ log[i].station_id = OverlapStation /\ log[j].station_id = OverlapStation
        /\ log[i].type = "RAIN_INTENSE" /\ log[j].type = "RAIN_INTENSE"
        /\ AbsDiff(log[i].ts, log[j].ts) < rain_cooldown_minutes

\* C27: the cooldown lookup and the insert are separate steps: an
\* evaluation whose lookup allowed the alert inserts it whatever was
\* logged since, and when both evaluations looked up the same log before
\* either inserted, with timestamps less than the cooldown apart, the log
\* then holds two alerts of the key less than the cooldown apart.
C27_CooldownAdvisory ==
    [][\A e \in Evaluators :
          (cc.ev[e].pc = "insert" /\ cc'.ev[e].pc = "done" /\ cc.ev[e].ok) =>
              /\ Len(cc'.log) = Len(cc.log) + 1
              /\ cc'.log[Len(cc'.log)].ts = cc.ev[e].ts
              /\ cc'.log[Len(cc'.log)].type = "RAIN_INTENSE"
              /\ \A f \in Evaluators \ {e} :
                    (/\ cc.ev[f].pc = "done" /\ cc.ev[f].ok
                     /\ cc.ev[f].seen = cc.ev[e].seen
                     /\ AbsDiff(cc.ev[f].ts, cc.ev[e].ts) < rain_cooldown_minutes)
                        => TwoInsideCooldown(cc'.log, cc.ev[e].seen)]_vars

C27_Witness ==
    /\ \A e \in Evaluators : cc.ev[e].pc = "done" /\ cc.ev[e].ok
    /\ cc.ev[1].seen = cc.ev[2].seen
    /\ TwoInsideCooldown(cc.log, cc.ev[1].seen)


\* ---------------------------------------------------------------------
\* Engine.q, Engine.producer and Engine.consumer: the producer puts one
\* tick per interval and blocks while the queue is full; the consumer is
\* one loop of get, process_tick, handler, task_done.  Ticks are numbered
\* in the order they are put.
\* ---------------------------------------------------------------------

\* ticks the producer puts in one run
MaxProduced == 102

\* Queue(maxsize=100)
maxsize == 100

\* mutation of q_get: the newest queued tick is taken
q_get_newest(q) == [item |-> q[Len(q)], rest |-> SubSeq(q, 1, Len(q) - 1)]

\* Queue.get on a queue that is not empty: the oldest queued tick
q_get(q) == [item |-> Head(q), rest |-> Tail(q)]

\* Queue.put blocks while the queue holds maxsize items
q_full(q) == Len(q) >= maxsize

InitQueue ==
    /\ eq = [q |-> << >>, produced |-> 0, unfinished |-> 0,
             pc |-> "get", cur |-> 0, open |-> 0,
             last_failed |-> FALSE]
    /\ ProgramIdle /\ ExtIdleBut("eq")
    /\ AuxOnlyIdle

QueueFrame == UNCHANGED <<ruleVars, indexVars, tickVars, auxVars, ml, bl, cc, hp, moreVars>>

\* producer: self.q.put(datetime.utcnow())
Produce ==
    /\ eq.produced < MaxProduced
    /\ ~q_full(eq.q)
    /\ eq' = [eq EXCEPT !.q = Append(@, eq.produced + 1),
                        !.produced = @ + 1,
                        !.unfinished = @ + 1]
    /\ QueueFrame

\* consumer: ts = self.q.get(), blocking while the queue is empty
ConsumerGet ==
    /\ eq.pc = "get"
    /\ eq.q # << >>
    /\ LET g == q_get(eq.q)
       IN eq' = [eq EXCEPT !.q = g.rest, !.cur = g.item,
                           !.open = @ + 1, !.pc = "process_tick"]
    /\ QueueFrame

\* self.process_tick(ts) returns
TickReturns ==
    /\ eq.pc = "process_tick"
    /\ eq' = [eq EXCEPT !.pc = "finally", !.last_failed = FALSE]
    /\ QueueFrame

\* self.process_tick(ts) raises e
TickRaises(e) ==
    /\ eq.pc = "process_tick"
    /\ eq' = [eq EXCEPT !.pc = IF except_Exception(e) THEN "except" ELSE "dying",
                        !.last_failed = TRUE]
    /\ QueueFrame

\* except Exception as e: logger.error(...)
ConsumerExcept ==
    /\ eq.pc = "except"
    /\ eq' = [eq EXCEPT !.pc = "finally"]
    /\ QueueFrame

\* finally: self.q.task_done(); an error no handler took ends the thread
\* after it
ConsumerFinally ==
    /\ eq.pc \in {"finally", "dying"}
    /\ eq' = [eq EXCEPT !.pc = IF eq.pc = "dying" THEN "dead" ELSE "get",
                        !.open = @ - 1,
                        !.unfinished = @ - 1]
    /\ QueueFrame

NextQueue ==
    \/ Produce
    \/ ConsumerGet
    \/ TickReturns
    \/ \E e \in ErrorKinds : TickRaises(e)
    \/ ConsumerExcept
    \/ ConsumerFinally

SpecQueue == InitQueue /\ [][NextQueue]_vars

\* C29: the consumer takes the ticks in the order they were put, one at a
\* time and only when no dequeued tick is still open; every dequeued tick
\* is marked done once, after process_tick returned or raised; after a
\* raising tick the consumer goes on to the next get; the queue never
\* holds more than maxsize ticks.
C29_TicksNeverOverlap ==
    [][/\ Len(eq'.q) <= maxsize
       /\ eq'.open \in {0, 1}
       /\ eq'.unfinished = Len(eq'.q) + eq'.open
       /\ eq'.pc # "dead"
       /\ (eq.pc = "get" /\ eq'.pc = "process_tick") =>
              /\ eq.open = 0
              /\ eq'.cur = eq.cur + 1
              /\ eq'.open = 1
       /\ eq.pc = "process_tick" => eq'.pc \in {"process_tick", "except", "finally"}
       /\ eq.pc = "except" => eq'.pc \in {"except", "finally"}
       /\ eq.pc = "finally" => eq'.pc \in {"finally", "get"}
       /\ (eq.pc = "finally" /\ eq'.pc = "get") =>
              /\ eq'.open = 0
              /\ eq'.unfinished = eq.unfinished - 1]_vars

\* the producer is blocked on a full queue while the consumer runs a tick
\* that follows a failed one
C29_Witness ==
    /\ q_full(eq.q)
    /\ eq.pc = "process_tick"
    /\ eq.last_failed
    /\ eq.cur > 1


\* ---------------------------------------------------------------------
\* apply_wind_speed_rules evaluated for station S1 on two alert logs that
\* see the same readings: alerts of other stations or types are logged
\* in the second log only.
\* ---------------------------------------------------------------------

\* ticks of one paired run
MaxPairTicks == 3

\* alerts logged in the second log only
MaxForeign == 2

WindTypes == {"WIND_STRONG", "WIND_VERY_STRONG"}

\* calm, strong and very strong wind, kn
PairWindValues == {0, wind_strong_kn, wind_very_strong_kn}

PairStations == {"S1", "S2"}

\* the timestamps of the alerts of one key, in log order: what
\* _last_alert_time can see of the log for that key
KeyAlerts(log, sid, type) ==
    LET own == SelectSeq(log, LAMBDA r : /\ r.station_id = sid
                                         /\ r.metric = "wind_speed"
                                         /\ r.type = type)
    IN [i \in 1..Len(own) |-> own[i].ts]

\* the types of the alerts an evaluation added for sid
NewTypesFor(before, after, sid) ==
    {after[i].type : i \in {n \in (Len(before) + 1)..Len(after) : after[n].station_id = sid}}

InitPair ==
    /\ hp = [g |-> << >>, ts |-> 0,
             logA |-> << >>, logB |-> << >>,
             preA |-> << >>, preB |-> << >>,
             emA |-> {}, emB |-> {},
             foreign |-> 0]
    /\ ProgramIdle /\ ExtIdleBut("hp")
    /\ AuxOnlyIdle

PairFrame == UNCHANGED <<ruleVars, indexVars, tickVars, auxVars, ml, bl, cc, eq, moreVars>>

\* an alert of (sid, type) is logged in the second log only
PairForeign(sid, type) ==
    /\ hp.foreign < MaxForeign
    /\ hp' = [hp EXCEPT !.logB = insert_alert(@, hp.ts, sid, "wind_speed", type),
                        !.foreign = @ + 1]
    /\ PairFrame

\* a wind reading of S1 arrives and apply_wind_speed_rules runs on the
\* window against each log
PairTick(v) ==
    /\ Len(hp.g) < MaxPairTicks
    /\ LET t_cur == Len(hp.g) * cadence_min
           g == Append(hp.g, Row(t_cur, v))
           a == WindStation("S1", g, t_cur, hp.logA)
           b == WindStation("S1", g, t_cur, hp.logB)
       IN hp' = [hp EXCEPT !.g = g, !.ts = t_cur,
                           !.preA = hp.logA, !.preB = hp.logB,
                           !.logA = a, !.logB = b,
                           !.emA = NewTypesFor(hp.logA, a, "S1"),
                           !.emB = NewTypesFor(hp.logB, b, "S1")]
    /\ PairFrame

NextPair ==
    \/ \E sid \in PairStations, type \in WindTypes : PairForeign(sid, type)
    \/ \E v \in PairWindValues : PairTick(v)

SpecPair == InitPair /\ [][NextPair]_vars

\* C30: two evaluations of the same readings of S1, on logs that hold the
\* same alerts of key (S1, wind_speed, T), agree on whether an alert of
\* type T is emitted for S1, whatever else the logs hold.
C30_CooldownPerKey ==
    \A T \in WindTypes :
        KeyAlerts(hp.preA, "S1", T) = KeyAlerts(hp.preB, "S1", T)
            => ((T \in hp.emA) <=> (T \in hp.emB))


\* ---------------------------------------------------------------------
\* features.neighbor_gap on the latest snapshot of one metric.  Values of
\* the linear metric are in tenths, wind directions in degrees; gaps are
\* kept doubled (gap2) so that the median of two values stays an integer.
\* ---------------------------------------------------------------------

\* snapshots one run passes to neighbor_gap
MaxGapCalls == 2

GapOrder == <<"S1", "S2", "S3">>
GapStations == {GapOrder[i] : i \in 1..Len(GapOrder)}

\* the two kinds of metric neighbor_gap tells apart
GapMetrics == {"temperature", "wind_direction"}

\* a station without a row in the snapshot
NoRow == 0 - 1

\* latest values: 0, 90 and 180 (degrees, or tenths of a unit)
GapValues == {0, 90, 180}

\* mutation of neighbor_values: every other station of the snapshot counts
other_values(latest, nbs, sid) ==
    LET present == SelectSeq(GapOrder, LAMBDA n : n # sid /\ latest[n] # NoRow)
    IN [i \in 1..Len(present) |-> latest[present[i]]]

\* vals = [vmap[n] for n, _ in nbs if n in vmap]
neighbor_values(latest, nbs, sid) ==
    LET present == SelectSeq(GapOrder, LAMBDA n : n \in nbs /\ latest[n] # NoRow)
    IN [i \in 1..Len(present) |-> latest[present[i]]]

\* the number of entries of vals below x
CountBelow(vals, x) == Cardinality({i \in 1..Len(vals) : vals[i] < x})

\* the k-th smallest entry of a sequence that is not empty
KthSmallest(vals, k) ==
    CHOOSE x \in {vals[i] : i \in 1..Len(vals)} :
        /\ CountBelow(vals, x) < k
        /\ CountBelow(vals, x + 1) >= k

\* 2 * np.median(vals): the middle entry, or the mean of the two middle ones
median2(vals) ==
    LET n == Len(vals)
    IN IF n % 2 = 1 THEN 2 * KthSmallest(vals, (n + 1) \div 2)
       ELSE KthSmallest(vals, n \div 2) + KthSmallest(vals, n \div 2 + 1)

\* np.sin and np.cos of a multiple of 90 degrees; eps counts the tiny positive
\* remainders the doubles carry where the exact value is 0 (sin 180, cos 90)
UnitVec(deg) ==
    CASE deg = 0   -> [s |-> 0, c |-> 1, es |-> 0, ec |-> 0]
      [] deg = 90  -> [s |-> 1, c |-> 0, es |-> 0, ec |-> 1]
      [] deg = 180 -> [s |-> 0, c |-> 0 - 1, es |-> 1, ec |-> 0]

RECURSIVE VecSum(_)
VecSum(vals) ==
    IF vals = << >> THEN [s |-> 0, c |-> 0, es |-> 0, ec |-> 0]
    ELSE LET h == UnitVec(Head(vals))
             t == VecSum(Tail(vals))
         IN [s |-> h.s + t.s, c |-> h.c + t.c, es |-> h.es + t.es, ec |-> h.ec + t.ec]

\* np.rad2deg(np.arctan2(s, c)) % 360 for a vector on an axis or a diagonal
ATan2Deg(s, c) ==
    CASE s = 0 /\ c > 0 -> 0
      [] s > 0 /\ c = s -> 45
      [] s > 0 /\ c = 0 -> 90
      [] s > 0 /\ c = 0 - s -> 135
      [] s = 0 /\ c < 0 -> 180
      [] s < 0 /\ c = s -> 225
      [] s < 0 /\ c = 0 -> 270
      [] s < 0 /\ c = 0 - s -> 315

\* circular_mean_deg(vals): where the sums cancel, the remainders decide
circular_mean_deg(vals) ==
    LET r == VecSum(vals)
    IN IF r.s = 0 /\ r.c = 0 THEN ATan2Deg(r.es, r.ec) ELSE ATan2Deg(r.s, r.c)

NullGap == [null |-> TRUE, gap2 |-> 0]

\* the gap neighbor_gap appends for the row of sid
gap_of(latest, nbmap, metric, sid) ==
    LET val == latest[sid]
        vals == neighbor_values(latest, nbmap[sid], sid)
    IN IF metric = "wind_direction" /\ vals # << >>
       THEN [null |-> FALSE,
             gap2 |-> 2 * angular_difference_deg(val, circular_mean_deg(vals))]
       ELSE IF vals = << >> THEN NullGap
       ELSE [null |-> FALSE, gap2 |-> 2 * val - median2(vals)]

\* neighbor_gap(latest, neighbors_map): one gap per row of the snapshot
neighbor_gap(latest, nbmap, metric) ==
    [sid \in {s \in GapStations : latest[s] # NoRow} |-> gap_of(latest, nbmap, metric, sid)]

\* neighbor lists as station_index.neighbors gives them: other stations only
NeighborMaps == [GapStations -> SUBSET GapStations] 

InitGap ==
    /\ \E m \in GapMetrics, l \in [GapStations -> GapValues \cup {NoRow}],
          n \in {f \in NeighborMaps : \A s \in GapStations : s \notin f[s]} :
            ng = [metric |-> m, latest |-> l, nbmap |-> n, calls |-> 0,
                  gaps |-> << >>, changed |-> "none", before |-> << >>,
                  was |-> l]
    /\ ProgramIdle /\ ExtIdleBut("ng")
    /\ AuxOnlyIdle

GapFrame == UNCHANGED <<baseVars, sg, tp, hx, vz>>

\* g = neighbor_gap(g, neighbors_map) on the snapshot of the tick
CallNeighborGap ==
    /\ ng.calls = 0
    /\ ng' = [ng EXCEPT !.calls = 1,
                        !.gaps = neighbor_gap(ng.latest, ng.nbmap, ng.metric)]
    /\ GapFrame

\* the next tick: the latest row of station o has changed (or is gone) and
\* neighbor_gap runs on the new snapshot
NextSnapshot(o, v) ==
    /\ ng.calls >= 1 /\ ng.calls < MaxGapCalls
    /\ ng.latest[o] # v
    /\ LET l == [ng.latest EXCEPT ![o] = v]
       IN ng' = [ng EXCEPT !.calls = @ + 1, !.latest = l, !.changed = o,
                           !.was = ng.latest, !.before = ng.gaps,
                           !.gaps = neighbor_gap(l, ng.nbmap, ng.metric)]
    /\ GapFrame

NextGap ==
    \/ CallNeighborGap
    \/ \E o \in GapStations, v \in GapValues \cup {NoRow} : NextSnapshot(o, v)

SpecGap == InitGap /\ [][NextGap]_vars

\* the latest values of the neighbors of sid that have a row
PresentNeighbors(sid) == {n \in ng.nbmap[sid] : ng.latest[n] # NoRow}

\* m2 is twice a median of the values of the stations in ns: at most half
\* of them lie below it, at most half above, and it is the midpoint of the
\* nearest values on either side
IsMedian2(m2, ns) ==
    LET below == {n \in ns : 2 * ng.latest[n] < m2}
        above == {n \in ns : 2 * ng.latest[n] > m2}
        lo == {n \in ns : 2 * ng.latest[n] <= m2}
        hi == {n \in ns : 2 * ng.latest[n] >= m2}
    IN /\ 2 * Cardinality(below) <= Cardinality(ns)
       /\ 2 * Cardinality(above) <= Cardinality(ns)
       /\ \E a \in lo, b \in hi :
             /\ \A n \in lo : ng.latest[n] <= ng.latest[a]
             /\ \A n \in hi : ng.latest[n] >= ng.latest[b]
             /\ m2 = ng.latest[a] + ng.latest[b]

\* sine and cosine of a multiple of 45 degrees as [whole, root]: the value
\* is whole + root * sqrt(1/2)
Sin45(deg) ==
    LET a == (deg % 360) \div 45
    IN CASE a = 0 -> [w |-> 0, r |-> 0]  [] a = 1 -> [w |-> 0, r |-> 1]
         [] a = 2 -> [w |-> 1, r |-> 0]  [] a = 3 -> [w |-> 0, r |-> 1]
         [] a = 4 -> [w |-> 0, r |-> 0]  [] a = 5 -> [w |-> 0, r |-> 0 - 1]
         [] a = 6 -> [w |-> 0 - 1, r |-> 0] [] a = 7 -> [w |-> 0, r |-> 0 - 1]

\* the sum over ns of the sine of (value - ref + shift)
RECURSIVE SumOver(_, _, _)
SumOver(ns, ref, shift) ==
    IF ns = {} THEN [w |-> 0, r |-> 0]
    ELSE LET n == CHOOSE x \in ns : TRUE
             h == Sin45(ng.latest[n] - ref + shift)
             t == SumOver(ns \ {n}, ref, shift)
         IN [w |-> h.w + t.w, r |-> h.r + t.r]

\* ref is the mean direction of the values of ns: their resultant has no
\* component across ref and a positive one along it
IsMeanDirection(ref, ns) ==
    LET across == SumOver(ns, ref, 0)
        along == SumOver(ns, ref, 90)
    IN /\ across.w = 0 /\ across.r = 0
       /\ 1000 * along.w + 707 * along.r > 0

\* the values of ns cancel: they have no mean direction
Cancel(ns) ==
    LET a == SumOver(ns, 0, 0)
        b == SumOver(ns, 0, 90)
    IN a.w = 0 /\ a.r = 0 /\ b.w = 0 /\ b.r = 0

GapCorrect ==
    ng.calls >= 1 =>
        /\ DOMAIN ng.gaps = {s \in GapStations : ng.latest[s] # NoRow}
        /\ \A s \in DOMAIN ng.gaps :
              LET ns == PresentNeighbors(s)
                  g == ng.gaps[s]
              IN /\ g.null <=> ns = {}
                 /\ (ns # {} /\ ng.metric # "wind_direction")
                       => IsMedian2(2 * ng.latest[s] - g.gap2, ns)
                 /\ (ns # {} /\ ng.metric = "wind_direction" /\ ~Cancel(ns))
                       => /\ g.gap2 % 2 = 0
                          /\ -180 <= g.gap2 \div 2 /\ g.gap2 \div 2 <= 180
                          /\ IsMeanDirection(ng.latest[s] - g.gap2 \div 2, ns)

\* a change of the row of a station that is not a neighbor of s leaves the
\* gap of s as it was
GapOnlyFromNeighbors ==
    ng.changed # "none" =>
        \A s \in DOMAIN ng.gaps :
            (s # ng.changed /\ ng.changed \notin ng.nbmap[s] /\ s \in DOMAIN ng.before)
                => ng.gaps[s] = ng.before[s]

\* C31: every row of the snapshot gets its value minus the median of the
\* latest values of its neighbors present in the snapshot (for wind
\* direction the signed shortest-angle difference to their mean direction),
\* a null gap when none of its neighbors is present, and a gap that no
\* station outside its neighbor list can change.
C31_NeighborGap == GapCorrect /\ GapOnlyFromNeighbors

\* a wind-direction row with two neighbors present and an outsider changed
C31_Witness ==
    /\ ng.calls = 2
    /\ ng.metric = "wind_direction"
    /\ ng.changed = "S3" /\ "S3" \notin ng.nbmap["S1"]
    /\ ng.nbmap["S2"] = {"S1", "S3"}
    /\ Cardinality(PresentNeighbors("S2")) = 2
    /\ "S1" \in DOMAIN ng.gaps /\ ~ng.gaps["S1"].null
    /\ ng.gaps["S2"] # ng.before["S2"]


\* ---------------------------------------------------------------------
\* compute_univariate_feats._grp on one (metric, station) group whose rows
\* all lie inside the rolling window: the feature columns of its last row.
\* Values and dispersions are in hundredths of the metric's unit.
\* ---------------------------------------------------------------------

\* SIGMA_FLOOR, hundredths
SIGMA_FLOOR(m) ==
    CASE m = "temperature"    -> 15
      [] m = "humidity"       -> 50
      [] m = "wind_speed"     -> 30
      [] m = "rainfall"       -> 1
      [] m = "wind_direction" -> 500

\* the other direction of a wind group, degrees: a few degrees or a right
\* angle away from 0
WindTurns == {4, 90}

\* values of a linear group, hundredths
FlatValues == {0, 10, 100}

\* sequences of length n over the set S
SeqsOf(S, n) == [1..n -> S]

\* groups one row short of min_periods, with min_periods rows, and with the
\* 2 * min_periods - 1 rows a rolling MAD needs
LinearGroups ==
    SeqsOf(FlatValues, min_periods - 1) \cup SeqsOf(FlatValues, min_periods)
        \cup SeqsOf({0, 100}, 2 * min_periods - 1)

\* wind groups: min_periods directions, each 0 or the group's other direction
WindGroups ==
    UNION {SeqsOf({0, 100 * t}, min_periods) : t \in WindTurns}
        \cup SeqsOf({0}, min_periods - 1)

ISqrt(x) == CHOOSE r \in 0..(x + 1) : r * r <= x /\ (r + 1) * (r + 1) > x

\* v.rolling(win, min_periods=5).std(ddof=0) at the last row
rolling_std(vals) ==
    LET n == Len(vals)
        s1 == SumSeq(vals)
        s2 == SumSeq([i \in 1..n |-> vals[i] * vals[i]])
    IN ISqrt((n * s2 - s1 * s1) \div (n * n))

\* twice the rolling median at row j
rolling_med2(vals, j) == median2(SubSeq(vals, 1, j))

\* 1.4826 * mad at the last row: mad is the rolling median of |v - med| over
\* the rows whose rolling median is not null
rolling_sig_rob(vals) ==
    LET n == Len(vals)
        dev2 == [k \in 1..(n - min_periods + 1) |->
                    Abs(2 * vals[k + min_periods - 1]
                        - rolling_med2(vals, k + min_periods - 1))]
    IN (14826 * median2(dev2)) \div 40000

\* circ_std at the last row of a wind group of five directions, k of them
\* turned by t degrees: degrees(sqrt(-2 ln R)) in hundredths, R the length of
\* the mean unit vector clipped to [1e-9, 1]
circ_std(vals) ==
    LET k == Cardinality({i \in 1..Len(vals) : vals[i] # 0})
        t == IF k = 0 THEN 0 ELSE (CHOOSE i \in 1..Len(vals) : vals[i] # 0)
        turn == IF k = 0 THEN 0 ELSE vals[t] \div 100
    IN CASE k = 0 \/ k = Len(vals) -> 0
         [] turn = 4 /\ k \in {1, 4} -> 160
         [] turn = 4 /\ k \in {2, 3} -> 196
         [] turn = 90 /\ k \in {1, 4} -> 3558
         [] turn = 90 /\ k \in {2, 3} -> 4633

\* Series.clip(lower=floor)
clip_lower(x, floor) == IF x < floor THEN floor ELSE x

NullRow == [sigma_null |-> TRUE, sigma |-> 0, z_null |-> TRUE, z_div |-> 0,
            rob_null |-> TRUE, rob_div |-> 0]

\* the dispersion columns of the last row of the group, and the divisors
\* of its z and z_robust
_grp(m, vals) ==
    IF Len(vals) < min_periods THEN NullRow
    ELSE IF m = "wind_direction"
    THEN LET cs == circ_std(vals)
         IN [sigma_null |-> FALSE, sigma |-> cs,
             z_null |-> cs = 0, z_div |-> cs,
             rob_null |-> cs = 0, rob_div |-> cs]
    ELSE LET floor == SIGMA_FLOOR(m)
             sig == clip_lower(rolling_std(vals), floor)
             rob == Len(vals) >= 2 * min_periods - 1
             sig_rob == IF rob THEN clip_lower(rolling_sig_rob(vals), floor) ELSE 0
         IN [sigma_null |-> FALSE, sigma |-> sig,
             z_null |-> FALSE, z_div |-> sig,
             rob_null |-> ~rob, rob_div |-> sig_rob]

InitSigma ==
    /\ \E m \in Metrics :
         \E v \in IF m = "wind_direction" THEN WindGroups ELSE LinearGroups :
            sg = [metric |-> m, vals |-> v, done |-> FALSE, row |-> NullRow]
    /\ ProgramIdle /\ ExtIdleBut("sg")
    /\ AuxOnlyIdle

\* compute_univariate_feats reaches the group
ComputeGroup ==
    /\ ~sg.done
    /\ sg' = [sg EXCEPT !.done = TRUE, !.row = _grp(sg.metric, sg.vals)]
    /\ UNCHANGED <<baseVars, ng, tp, hx, vz>>

NextSigma == ComputeGroup

SpecSigma == InitSigma /\ [][NextSigma]_vars

\* the dispersions of the computed row are at or above floor
RowFloored(floor) ==
    /\ ~sg.row.sigma_null => sg.row.sigma >= floor
    /\ ~sg.row.z_null => sg.row.z_div >= floor
    /\ ~sg.row.rob_null => sg.row.rob_div >= floor

\* C32: for each of the five metrics, every non-null sigma of a feature row
\* is at least the metric's floor, and so is every dispersion a z-score was
\* divided by.
C32_SigmaFloored == sg.done => RowFloored(SIGMA_FLOOR(sg.metric))


\* ---------------------------------------------------------------------
\* One process_tick run on two engines that read the same readings and
\* start from the same alert log.  The first starts with an empty model
\* pool and an index without neighbors; the second holds any model pool
\* and any neighbor lists, and so computes other scores and neighbor flags.
\* ---------------------------------------------------------------------

\* polls of one paired run
MaxTwinPolls == 3

\* the metrics the stations report in a paired run
TwinMetrics == {"temperature", "wind_speed"}

ModelStates == {"absent", "unfitted", "fitted"}

\* neighbor lists station_index.neighbors can return: other stations only
TwinNeighborMaps == {f \in [Stations -> SUBSET Stations] : \A s \in Stations : s \notin f[s]}

\* the window of a metric when the index holds every station
TwinWindow(store, m) ==
    get_latest_readings(store, m, Len(StationOrder) * samples_per_station)

\* process_tick lines 130-142: a station is flagged when one of its neighbors
\* in the snapshot is anomalous; anomalous says which stations are (|z| above
\* the threshold, or score above 0.7)
neighbor_flags(w, nbmap, anomalous) ==
    [s \in Stations |-> \E n \in nbmap[s] : w[n] # << >> /\ n \in anomalous]

\* what one engine computes in a tick before the rules run: pool, scores and
\* neighbor flags per metric
TwinDiagnostics(store, pool, nbmap, anomalous) ==
    [m \in Metrics |->
        LET w == TwinWindow(store, m)
            rows == SumSeq([i \in 1..Len(StationOrder) |-> Len(w[StationOrder[i]])])
            st == IF WindowEmpty(w) THEN pool[m] ELSE fit_if_needed(_get(pool, m), rows)
        IN [model |-> st,
            scores |-> IF WindowEmpty(w) THEN {} ELSE score_rows(m, w, st),
            flags |-> neighbor_flags(w, nbmap, anomalous)]]

\* mutation of tick_emit: the rules of a metric run only when no station of
\* the snapshot is flagged by its neighbors
tick_emit_gated(store, log, diag) ==
    IF \E m \in Metrics, s \in Stations : diag[m].flags[s] THEN log
    ELSE TickRules(1, [m \in Metrics |-> TwinWindow(store, m)], log)

\* process_tick lines 155-182: the rules get window_df, the raw columns of
\* the metric's rows, and t_cur; nothing of diag is passed to them
tick_emit(store, log, diag) ==
    TickRules(1, [m \in Metrics |-> TwinWindow(store, m)], log)

InitTwin ==
    /\ \E nA \in {[s \in Stations |-> {}]}, nB \in TwinNeighborMaps :
          tp = [store |-> EmptyStore, t_last |-> 0, polls |-> 0, pc |-> "poll",
                logA |-> << >>, logB |-> << >>,
                poolA |-> NoModels, poolB |-> NoModels,
                nbA |-> nA, nbB |-> nB,
                flagsA |-> [s \in Stations |-> FALSE],
                flagsB |-> [s \in Stations |-> FALSE]]
    /\ ProgramIdle /\ ExtIdleBut("tp")
    /\ AuxOnlyIdle

TwinFrame == UNCHANGED <<baseVars, ng, sg, hx, vz>>

\* poll_once: the stations of rep report the metrics at level lvl
TwinPoll(rep, lvl) ==
    /\ tp.pc = "poll"
    /\ tp.polls < MaxTwinPolls
    /\ LET t == tp.t_last + cadence_min
       IN tp' = [tp EXCEPT !.polls = @ + 1, !.pc = "tick", !.t_last = t,
                           !.store = [m \in Metrics |-> [s \in Stations |->
                               IF m \in TwinMetrics /\ s \in rep
                               THEN Append(tp.store[m][s], Row(t, LevelsOf(m)[lvl]))
                               ELSE tp.store[m][s]]]]
    /\ TwinFrame

\* the second engine holds another model of metric m (restarted, or trained
\* on a longer history)
TwinModel(m, st) ==
    /\ tp.pc = "poll"
    /\ tp.poolB[m] # st
    /\ tp' = [tp EXCEPT !.poolB[m] = st]
    /\ TwinFrame

\* process_tick on both engines; anomA and anomB are the stations each
\* engine's scores and z-values make anomalous
TwinTick(anomA, anomB) ==
    /\ tp.pc = "tick"
    /\ LET dA == TwinDiagnostics(tp.store, tp.poolA, tp.nbA, anomA)
           dB == TwinDiagnostics(tp.store, tp.poolB, tp.nbB, anomB)
       IN tp' = [tp EXCEPT !.pc = "poll",
                           !.poolA = [m \in Metrics |-> dA[m].model],
                           !.poolB = [m \in Metrics |-> dB[m].model],
                           !.flagsA = dA["wind_speed"].flags,
                           !.flagsB = dB["wind_speed"].flags,
                           !.logA = tick_emit(tp.store, tp.logA, dA),
                           !.logB = tick_emit(tp.store, tp.logB, dB)]
    /\ TwinFrame

NextTwin ==
    \/ \E rep \in {{"S1"}, Stations}, lvl \in 1..2 : TwinPoll(rep, lvl)
    \/ \E m \in TwinMetrics, st \in ModelStates : TwinModel(m, st)
    \/ \E a \in {{}}, b \in SUBSET Stations : TwinTick(a, b)

SpecTwin == InitTwin /\ [][NextTwin]_vars

C34_ReEvaluationIdempotent ==
    [][(ticks' = ticks /\ evals' = evals + 1) => alerts' = alerts]_vars


\* C35: every alert a tick emits for a station and a metric carries the
\* timestamp of that station's own latest reading of the metric.
C35_StampedWithOwnLatest ==
    [][\A i \in (Len(alerts) + 1)..Len(alerts') :
          alerts'[i].ts = LastTs(readings'[alerts'[i].metric][alerts'[i].station_id])]_vars


-----------------------------------------------------------------------------
(* The number of neighbors returned, checked under SpecIndex *)

\* the queried station is one of the stations the index holds
Indexed(station_id) == \E i \in 1..Len(_stations) : _stations[i].id = station_id

\* the queried station shares its projected point with another station
SharesPoint(station_id) ==
    \E i, j \in 1..Len(_stations) :
        /\ i # j
        /\ _stations[i].id = station_id
        /\ _coords_km.pts[i] = _coords_km.pts[j]

-----------------------------------------------------------------------------
(* RAIN_ONSET and RAIN_STOP in one evaluation, checked under the heavy-rain *)
(* runs of the rain-event rules                                             *)

\* C37: with the default configuration (trend window 3, onset_k 2, stop
\* quiet-intervals 2) and non-negative rainfall values, one evaluation of
\* apply_rain_event_rules never emits both RAIN_ONSET and RAIN_STOP for the
\* same station.
C37_NoOnsetWithStop ==
    onset_k = rain_onset_min_intervals =>
        \A s \in Stations :
            ~\E i, j \in 1..Len(Emitted) :
                /\ Emitted[i].station_id = s /\ Emitted[i].type = "RAIN_ONSET"
                /\ Emitted[j].station_id = s /\ Emitted[j].type = "RAIN_STOP"

\* an evaluation emitted RAIN_STOP while the recent window still summed to the
\* onset threshold and no cooldown stood in the way of RAIN_ONSET
C37_Witness ==
    /\ onset_k = rain_onset_min_intervals
    /\ "RAIN_STOP" \in EmittedTypes
    /\ RainRecentSum(Series) >= rain_onset_S15_mm
    /\ OfType("RAIN_ONSET") = {}


-----------------------------------------------------------------------------
(* Rebuilds of the spatial index that can fail part-way.  The stations     *)
(* table allows NULL coordinates (store.py 43-48); hx.nulls holds the ids  *)
(* of such rows.  np.array(..., dtype=float) turns NULL into NaN, the      *)
(* projection keeps NaN in that row, and KDTree rejects an array with NaN: *)
(* _hydrate then raises at line 73, after lines 61 and 70 have assigned.   *)

\* rebuilds in one run
MaxRebuilds == 3

\* the rows of the station list whose coordinates are NULL
NullRows(rows, nulls) == {i \in 1..Len(rows) : rows[i].id \in nulls}

\* the rows at the positions outside skip, in order
RECURSIVE RowsWithout(_, _, _)
RowsWithout(rows, skip, i) ==
    IF i > Len(rows) THEN << >>
    ELSE IF i \in skip THEN RowsWithout(rows, skip, i + 1)
    ELSE <<rows[i]>> \o RowsWithout(rows, skip, i + 1)

\* stations._to_xy_km on arrays holding NaN: nanmean centres on the rows with
\* coordinates, a NaN row stays NaN (kept as the origin, its position in nan)
to_xy_km_nan(rows, nan) ==
    LET good == RowsWithout(rows, nan, 1)
        proj == IF good = << >> THEN << >> ELSE _to_xy_km(good)
        rank(i) == Cardinality({j \in 1..i : j \notin nan})
    IN [i \in 1..Len(rows) |->
            IF i \in nan THEN [x |-> 0, y |-> 0] ELSE proj[rank(i)]]

InitRebuild ==
    /\ hx = [nulls |-> {}, nan |-> {}, rebuilds |-> 0, failed |-> FALSE]
    /\ ProgramIdle /\ ExtIdleBut("hx") /\ AuxOnlyIdle

RebuildFrame ==
    UNCHANGED <<ruleVars, tickVars, auxVars, ml, bl, cc, eq, hp, ng, sg, tp, vz>>

\* store.upsert_stations of one row with coordinates
UpsertWithCoords(id, pos) ==
    /\ stations_tbl' = upsert_stations(stations_tbl, id, pos)
    /\ hx' = [hx EXCEPT !.nulls = @ \ {id}]
    /\ stations_tbl' # stations_tbl \/ hx' # hx
    /\ nb' = Idle
    /\ UNCHANGED <<_stations, _id_to_idx, _tree, _coords_km>>
    /\ RebuildFrame

\* store.upsert_stations of one row whose lat and lon are NULL
UpsertNullCoords(id) ==
    /\ stations_tbl' = upsert_stations(stations_tbl, id, [lat |-> 0, lon |-> 0])
    /\ hx' = [hx EXCEPT !.nulls = @ \cup {id}]
    /\ stations_tbl' # stations_tbl \/ hx' # hx
    /\ nb' = Idle
    /\ UNCHANGED <<_stations, _id_to_idx, _tree, _coords_km>>
    /\ RebuildFrame

\* StationIndex._hydrate, lines 61-75, returning or raising at line 73
HydrateOrRaise ==
    /\ hx.rebuilds < MaxRebuilds
    /\ LET rows == all_stations(stations_tbl)
           nan == NullRows(rows, hx.nulls)
       IN
        /\ _stations' = rows
        /\ IF Len(rows) = 0
           THEN /\ _tree' = NoTree
                /\ _coords_km' = NoCoords
                /\ _id_to_idx' = NoIds
                /\ hx' = [hx EXCEPT !.nan = {}, !.rebuilds = @ + 1, !.failed = FALSE]
           ELSE LET pts == to_xy_km_nan(rows, nan)
                IN /\ _coords_km' = [set |-> TRUE, pts |-> pts]
                   /\ hx' = [hx EXCEPT !.nan = nan, !.rebuilds = @ + 1,
                                       !.failed = (nan # {})]
                   /\ IF nan = {}
                      THEN /\ _tree' = [built |-> TRUE, data |-> pts]
                           /\ _id_to_idx' =
                                [id \in {rows[i].id : i \in 1..Len(rows)} |->
                                    CHOOSE i \in 1..Len(rows) : rows[i].id = id]
                      ELSE UNCHANGED <<_tree, _id_to_idx>>
    /\ nb' = Idle
    /\ UNCHANGED stations_tbl
    /\ RebuildFrame

\* neighbors(station_id, k) on whatever the index holds: line 95 raises when
\* the query point is NaN or k_eff exceeds the points of the tree, line 98 when
\* a row of the tree is beyond the station list
QueryOrRaise(station_id, k) ==
    /\ IF ReturnsEmpty(station_id)
       THEN nb' = Returned(station_id, k, FALSE, << >>)
       ELSE LET idx == _id_to_idx[station_id]
            IN IF \/ idx > Len(_coords_km.pts)
                  \/ idx \in hx.nan
                  \/ k_eff(k) > Len(_tree.data)
               THEN nb' = Returned(station_id, k, TRUE, << >>)
               ELSE \E ind \in TreeQuery(_tree, _coords_km.pts[idx], k_eff(k)) :
                       IF \E a \in 1..Len(ind) : ind[a] > Len(_stations)
                       THEN nb' = Returned(station_id, k, TRUE, << >>)
                       ELSE nb' = Returned(station_id, k, FALSE,
                                           neighbors(station_id, k, ind))
    /\ nb' # nb
    /\ UNCHANGED <<stations_tbl, _stations, _id_to_idx, _tree, _coords_km, hx>>
    /\ RebuildFrame

\* where each station stands in these runs
HomeOf(id) ==
    CASE id = "S1" -> [lat |-> 0, lon |-> 0]
      [] id = "S2" -> [lat |-> 0, lon |-> 1]
      [] OTHER     -> [lat |-> 60, lon |-> 0]

NextRebuild ==
    \/ \E id \in IndexIdSet : UpsertWithCoords(id, HomeOf(id))
    \/ \E id \in IndexIdSet : UpsertNullCoords(id)
    \/ HydrateOrRaise
    \/ \E id \in IndexIdSet, k \in 0..MaxK : QueryOrRaise(id, k)

SpecRebuild == InitRebuild /\ [][NextRebuild]_vars

\* the station list, the id-to-position map and the tree describe one
\* station set
OneStationSet ==
    /\ Len(_tree.data) = Len(_stations)
    /\ DOMAIN _id_to_idx = {_stations[i].id : i \in 1..Len(_stations)}
    /\ \A id \in DOMAIN _id_to_idx : _stations[_id_to_idx[id]].id = id

\* C38: a rebuild is all-or-nothing: after any sequence of rebuilds, one that
\* fails part-way (on a station row with null coordinates) included, the
\* station list, the id-to-position map and the KD-tree describe the same
\* station set, and no later neighbors() call raises.
C38_RebuildAllOrNothing ==
    /\ OneStationSet
    /\ nb.state = "done" => ~nb.raised


-----------------------------------------------------------------------------
(* The backoff of the daemon loop, checked under SpecDaemon *)

RECURSIVE Pow2(_)
Pow2(n) == IF n <= 0 THEN 1 ELSE 2 * Pow2(n - 1)

\* C39: the daemon's backoff is capped exponential: the backoff variable
\* always stays in [1, 60] seconds, the sleep after the k-th consecutive
\* failed iteration is min(60, 2^(k-1)) seconds, any successful iteration
\* resets the backoff to 1, and the tick counter advances only on successful
\* iterations.
C39_BackoffCappedExponential ==
    /\ [](1 <= dm.backoff /\ dm.backoff <= 60)
    /\ [][/\ (dm.pc = "except" /\ dm'.pc = "while")
                => dm'.slept = Min(60, Pow2(dm'.fails - 1))
          /\ (dm.pc = "ok" /\ dm'.pc = "while")
                => dm'.backoff = 1 /\ dm'.tick = dm.tick + 1
          /\ dm'.tick # dm.tick => dm.pc = "ok"]_vars

\* the eighth failed iteration in a row, after a successful one, has slept at
\* the cap
C39_Witness ==
    /\ dm.pc = "while"
    /\ dm.fails = 8
    /\ dm.tick >= 1
    /\ dm.slept = 60
    /\ dm.backoff = 60


-----------------------------------------------------------------------------
(* The daemon loop together with the stations table and the index.  S1 is  *)
(* stored with coordinates throughout; the row of S2 has coordinates or    *)
(* NULL coordinates (the rebuild then raises at line 73); S3 is the        *)
(* station that gets added.  Rows are written by poll_once or by another   *)
(* process (backfill, replay) at any moment.  The index is the list        *)
(* _stations, the rows the tree was built from and the keys of _id_to_idx; *)
(* queries ask for neighbor_k = 4 neighbors, more than there are stations. *)

\* successful iterations of one run
MaxVisTicks == 12

neighbor_k == 4

\* the tick interval of the periodic rebuild
refresh_every_ticks == 10

\* a rebuild every 11 ticks
rebuild_due_late(tick) == tick % (refresh_every_ticks + 1) = 0

\* daemon.py line 42: if tick % 10 == 0
rebuild_due(tick) == tick % refresh_every_ticks = 0

\* store.all_stations on the table of these runs: the ids of the rows
RECURSIVE StoredFrom(_, _)
StoredFrom(tbl, i) ==
    IF i > Len(IndexIds) THEN << >>
    ELSE IF tbl[IndexIds[i]] = "absent" THEN StoredFrom(tbl, i + 1)
    ELSE <<IndexIds[i]>> \o StoredFrom(tbl, i + 1)

SeqIds(s) == {s[i] : i \in 1..Len(s)}

NoNeighbors == [s \in IndexIdSet |-> {}]

InitVisible ==
    /\ vz = [pc |-> "initial_hydrate", tick |-> 0,
             tbl |-> [s \in IndexIdSet |-> IF s = "S3" THEN "absent" ELSE "coords"],
             list |-> << >>, tree |-> << >>, ids |-> {}, nan |-> {},
             since |-> 0, asked |-> FALSE, nbmap |-> NoNeighbors]
    /\ ProgramIdle /\ ExtIdleBut("vz") /\ AuxOnlyIdle

VisibleFrame == UNCHANGED <<baseVars, ng, sg, tp, hx>>

\* upsert_stations of the row of S3, with coordinates
AddStation ==
    /\ vz.tbl["S3"] = "absent"
    /\ vz.pc \notin {"not_started", "done"}
    /\ vz' = [vz EXCEPT !.tbl["S3"] = "coords", !.since = 0]
    /\ VisibleFrame

\* upsert_stations of the row of S2, with coordinates or with NULL coordinates
ReplaceStation(kind) ==
    /\ vz.tbl["S2"] # kind
    /\ vz.pc \notin {"not_started", "done"}
    /\ vz' = [vz EXCEPT !.tbl["S2"] = kind]
    /\ VisibleFrame

\* the index after _hydrate ran on the table: whole, or cut short at line 73
\* by a row with NULL coordinates
hydrated(v) ==
    LET rows == StoredFrom(v.tbl, 1)
        nan == {s \in SeqIds(rows) : v.tbl[s] = "null"}
    IN IF nan = {}
       THEN [v EXCEPT !.list = rows, !.tree = rows, !.ids = SeqIds(rows), !.nan = {}]
       ELSE [v EXCEPT !.list = rows, !.nan = nan]

hydrate_raises(v) == \E s \in IndexIdSet : v.tbl[s] = "null"

\* station_index._hydrate() before the loop: returns, or raises and ends
\* run_daemon
VisInitialHydrate ==
    /\ vz.pc = "initial_hydrate"
    /\ vz' = [hydrated(vz) EXCEPT !.pc = IF hydrate_raises(vz) THEN "not_started"
                                         ELSE "while"]
    /\ VisibleFrame

\* while not _STOP, up to the bound of the run
VisWhile ==
    /\ vz.pc = "while"
    /\ vz' = [vz EXCEPT !.pc = IF vz.tick < MaxVisTicks THEN "poll_once" ELSE "done",
                        !.asked = FALSE, !.nbmap = NoNeighbors]
    /\ VisibleFrame

\* poll_once() returns
VisPollReturns ==
    /\ vz.pc = "poll_once"
    /\ vz' = [vz EXCEPT !.pc = IF rebuild_due(vz.tick) THEN "_hydrate"
                               ELSE "process_tick"]
    /\ VisibleFrame

\* station_index._hydrate() inside the loop returns or raises at line 73
VisHydrate ==
    /\ vz.pc = "_hydrate"
    /\ vz' = [hydrated(vz) EXCEPT !.pc = IF hydrate_raises(vz) THEN "except"
                                         ELSE "process_tick"]
    /\ VisibleFrame

\* a step raises without having changed the index: a failed write of
\* poll_once, all_stations() on a locked database, a failure of the tick
VisStepRaises(step) ==
    /\ vz.pc = step
    /\ vz' = [vz EXCEPT !.pc = "except"]
    /\ VisibleFrame

\* StationIndex.ready
vis_ready(v) == v.tree # << >> /\ Len(v.list) >= 2

\* neighbors(sid, neighbor_k) raises: NaN query point, or more rows asked than
\* the tree holds
vis_neighbors_raises(v, sid) ==
    /\ vis_ready(v) /\ sid \in v.ids
    /\ \/ sid \in v.nan
       \/ Max(1, Min(neighbor_k + 1, Len(v.list))) > Len(v.tree)

\* the ids neighbors(sid, neighbor_k) returns: k_eff covers every row of the
\* tree, each labelled by the station list
vis_neighbors(v, sid) ==
    IF ~vis_ready(v) \/ sid \notin v.ids THEN {}
    ELSE {v.list[j] : j \in 1..Min(Len(v.tree), neighbor_k + 1)} \ {sid}

\* process_tick builds neighbors_map (engine.py 105-109), or a query raises
VisNeighborQuery ==
    /\ vz.pc = "process_tick"
    /\ ~vz.asked
    /\ IF \E s \in IndexIdSet : vis_neighbors_raises(vz, s)
       THEN vz' = [vz EXCEPT !.pc = "except"]
       ELSE vz' = [vz EXCEPT !.asked = TRUE,
                             !.nbmap = [s \in IndexIdSet |-> vis_neighbors(vz, s)]]
    /\ VisibleFrame

\* process_tick returns; tick += 1; backoff = 1; sleep
VisIterationOk ==
    /\ vz.pc = "process_tick"
    /\ vz.asked
    /\ vz' = [vz EXCEPT !.pc = "while", !.tick = @ + 1,
                        !.since = IF vz.tbl["S3"] = "coords" /\ @ <= refresh_every_ticks
                                  THEN @ + 1 ELSE @]
    /\ VisibleFrame

\* the handler: sleep, double the backoff
VisIterationFailed ==
    /\ vz.pc = "except"
    /\ vz' = [vz EXCEPT !.pc = "while"]
    /\ VisibleFrame

NextVisible ==
    \/ AddStation
    \/ \E kind \in {"coords", "null"} : ReplaceStation(kind)
    \/ VisInitialHydrate
    \/ VisWhile
    \/ VisPollReturns
    \/ VisHydrate
    \/ \E step \in {"poll_once", "_hydrate", "process_tick"} : VisStepRaises(step)
    \/ VisNeighborQuery
    \/ VisIterationOk
    \/ VisIterationFailed

SpecVisible == InitVisible /\ [][NextVisible]_vars

\* the running tick has its neighbor lists
Queried == vz.pc = "process_tick" /\ vz.asked

\* S3 is in no neighbor list and has none
Unseen ==
    vz.nbmap["S3"] = {} /\ \A o \in IndexIdSet : "S3" \notin vz.nbmap[o]

\* C40: a station added to the station store (with coordinates) while the
\* daemon runs becomes visible to neighbor queries after at most 10 further
\* successfully completed iterations; until the next rebuild, neighbors() for
\* that station returns the empty list and other stations' neighbor lists do
\* not contain it.
C40_VisibleWithinTenTicks ==
    /\ (vz.tbl["S3"] = "coords" /\ "S3" \notin vz.ids) => vz.since <= 10
    /\ (Queried /\ vz.tbl["S3"] = "coords" /\ vz.since >= 10)
          => /\ vz.nbmap["S3"] # {}
             /\ \A o \in vz.ids \ {"S3"} : "S3" \in vz.nbmap[o]
    /\ (Queried /\ "S3" \notin vz.ids) => Unseen

\* ten iterations have completed since S3 was added, and the tick that
\* follows the rebuild lists it
C40_Witness ==
    /\ Queried
    /\ vz.since = 10
    /\ vz.tick = 10
    /\ vz.nbmap["S3"] # {}
    /\ "S3" \in vz.nbmap["S1"]

====
